---- MODULE Spec2Model ----
(***************************************************************************)
(* State-machine model of the streaming ticker of kiteconnect-rs            *)
(* (src/src/ticker.rs): the serve loop, the tasks spawned per connection,   *)
(* the command channel, the subscription table and the binary decoder.      *)
(***************************************************************************)
EXTENDS Integers, Sequences, FiniteSets, TLC

(***************************************************************************)
(* Bounds of the model.                                                     *)
(***************************************************************************)
\* connections that may be established in one behaviour
MaxConns == 2
\* commands a Handle may have waiting in the channel
MaxQueue == 2
\* largest configured reconnect_max_retries drawn by Init
MaxRetries == 1
\* sub-packets laid out in a buffer handed to split_packets
MaxPackets == 2
\* events sent on the event channel after the initial state of a slice with
\* receivers
MaxEvents == 3
\* events a caller takes from one receiver
MaxReads == 2

(***************************************************************************)
(* Program constants (durations in milliseconds).                           *)
(***************************************************************************)
DEFAULT_RECONNECT_MAX_ATTEMPTS == 300
RECONNECT_MIN_DELAY == 5000
DEFAULT_RECONNECT_MAX_DELAY == 60000
CONNECTION_CHECK_INTERVAL == 2000
DATA_TIMEOUT_INTERVAL == 5000
MODE_LTP_LENGTH == 8
MODE_QUOTE_INDEX_PACKET_LENGTH == 28
MODE_FULL_INDEX_LENGTH == 32
MODE_QUOTE_LENGTH == 44
MODE_FULL_LENGTH == 184
INDICES == 9
NSE_CD == 3
BSE_CD == 6
BROADCAST_CAPACITY == 1000
DEFAULT_CONNECT_TIMEOUT == 7000

\* enum Mode, by its variants
Mode == {"LTP", "Quote", "Full"}

\* instrument tokens the callers use
Tokens == {1, 2}

\* the event receivers the callers may hold
RxIds == {1, 2}

VARIABLES
    auto_reconnect,        \* Ticker.auto_reconnect
    reconnect_max_retries, \* Ticker.reconnect_max_retries
    reconnect_max_delay,   \* Ticker.reconnect_max_delay, milliseconds
    connect_timeout,       \* Ticker.connect_timeout, milliseconds
    url_ok,                \* Url::parse(&self.url) succeeds
    overflow_checks,       \* the build panics on integer overflow (debug profile)
    event_capacity,        \* events the broadcast channel retains per receiver
    pc,                    \* position of the serve task
    serve_result,          \* what serve returned
    reconnect_attempt,     \* serve's local counter
    conn,                  \* number of connections established so far
    reader,                \* reader[k]: message_handler task of connection k
    watchdog,              \* watchdog[k]: reconnect_handler task of connection k
    cmd_owner,             \* who holds command_rx: 0 the Ticker, k the command
                           \* task spawned for connection k, -1 dropped
    subscribed_tokens,     \* the subscription table: token -> "absent"|"none"|mode
    queue,                 \* the command channel
    since,                 \* milliseconds between now and last_ping_time
    last,                  \* what the last step did: actor, connection, outputs
    rx,                    \* rx[r]: a broadcast::Receiver of subscribe_events
    backlog,               \* how many values the event channel had accepted
                           \* when the behaviour starts
    log,                   \* the values it has accepted since, oldest first
    call,                  \* the last call of one of the decoder's functions
    table_lock,            \* the RwLock of the table, and where the tasks that
                           \* take it are
    is_reconnect,          \* serve's local of the Ok(Ok(..)) arm
    error_msg,             \* serve's local error_msg, set before a return Err
    msg                    \* msg[k]: the message the read loop of connection k
                           \* is handling and the events it has still to send

\* what no step of a Ticker changes: its configuration, and the record of
\* the calls of the associated functions of the decoder
setupVars == <<auto_reconnect, reconnect_max_retries, reconnect_max_delay,
               connect_timeout, url_ok, overflow_checks, event_capacity, call,
               backlog>>

\* the locals of serve that outlive a step
serveLocals == <<is_reconnect, error_msg>>

\* what a step that takes no part in the locking of the table, is not a step
\* of serve and is not a step of a read loop leaves alone
cfgVars == <<setupVars, table_lock, serveLocals, msg>>
vars == <<auto_reconnect, reconnect_max_retries, reconnect_max_delay,
          connect_timeout, url_ok, overflow_checks, event_capacity, pc, serve_result, reconnect_attempt,
          conn, reader, watchdog, cmd_owner, subscribed_tokens, queue, since,
          last, rx, backlog, log, call, table_lock, is_reconnect, error_msg, msg>>

\* no decoder function has been called
NoCall == [fn |-> "none", arg |-> <<>>, ret |-> <<>>]

\* the lock is free: the command task waits for a command and resubscribe has
\* not been called
Unlocked == [writer |-> FALSE, reader |-> FALSE, cmd_pc |-> "recv", cmd |-> <<>>,
             cmd_err |-> "", rs_pc |-> "idle", pending |-> <<>>]

\* a read loop that waits in read.next(): no message in hand
NoMessage == [kind |-> "", data |-> <<>>, sent |-> <<>>, todo |-> <<>>]

NoMessages == [k \in 1..MaxConns |-> NoMessage]

(***************************************************************************)
(* Sequences and sets.                                                      *)
(***************************************************************************)
SeqToSet(s) == {s[i] : i \in 1..Len(s)}

NoDup(s) == \A i, j \in 1..Len(s) : i # j => s[i] # s[j]

\* every order in which the elements of S can be listed
Orders(S) == {s \in [1..Cardinality(S) -> S] : SeqToSet(s) = S}

Min(a, b) == IF a <= b THEN a ELSE b

(***************************************************************************)
(* Events (enum TickerEvent) and commands (enum TickerCommand).             *)
(***************************************************************************)
EvConnect == [type |-> "Connect"]
EvReconnect(n, d) == [type |-> "Reconnect", attempt |-> n, delay |-> d]
EvNoReconnect(n) == [type |-> "NoReconnect", attempt |-> n]
EvError(m) == [type |-> "Error", message |-> m]
EvClose(c, r) == [type |-> "Close", code |-> c, reason |-> r]
EvMessage(d) == [type |-> "Message", data |-> d]
EvTick(t) == [type |-> "Tick", tick |-> t]
EvOrderUpdate == [type |-> "OrderUpdate"]

CmdSubscribe(ts) == [type |-> "Subscribe", mode |-> "none", tokens |-> ts]
CmdUnsubscribe(ts) == [type |-> "Unsubscribe", mode |-> "none", tokens |-> ts]
CmdSetMode(m, ts) == [type |-> "SetMode", mode |-> m, tokens |-> ts]

\* what a step leaves behind for the observers: the task that ran, the
\* connection it belongs to, the events it sent on the broadcast channel, the
\* commands it put on the command channel, the socket writes it made and the
\* Result it returned
Step(actor, k, evs, cmds, writes, result) ==
    [actor |-> actor, conn |-> k, events |-> evs, cmds |-> cmds,
     writes |-> writes, result |-> result]

EventTypes(st) == {st.events[i].type : i \in 1..Len(st.events)}

(***************************************************************************)
(* Backoff: 2_u64.pow(reconnect_attempt as u32), then Duration::min.        *)
(* A u64 is four 16-bit limbs, least significant first, so that the width   *)
(* of the multiplication is kept.                                           *)
(***************************************************************************)
LimbBase == 256 * 256

\* 2_u64.pow(n): bit n of the 64 is set, and from n = 64 on the product no
\* longer fits: the value wraps to 0 (overflow checks off) and `overflow` is
\* set (overflow checks on: the multiplication panics)
Pow2U64(n) ==
    [val |-> [i \in 1..4 |-> IF n < 64 /\ n \div 16 = i - 1 THEN 2 ^ (n % 16) ELSE 0],
     overflow |-> n >= 64]

\* Duration::from_secs(x).min(max_delay), in milliseconds, for x a u64 of
\* seconds: x s is the smaller when x <= max_delay / 1000, rounded down
MinDelay(x, max_delay) ==
    IF x[2] = 0 /\ x[3] = 0 /\ x[4] = 0 /\ x[1] <= max_delay \div 1000
    THEN x[1] * 1000
    ELSE max_delay

\* next_delay of serve for a reconnect attempt, when pow does not panic
NextDelay(attempt, max_delay) == MinDelay(Pow2U64(attempt).val, max_delay)

\* a serve loop that gives up one attempt early
RetriesExhausted_Early(attempt, max_retries) == attempt >= max_retries

\* the exhaustion test at the top of the serve loop
RetriesExhausted(attempt, max_retries) == attempt > max_retries

(***************************************************************************)
(* Subscription table and the command applier.                              *)
(***************************************************************************)
EmptyTable == [t \in Tokens |-> "absent"]

TableIds(T) == {t \in DOMAIN T : T[t] # "absent"}

TableModes(T) == {T[t] : t \in TableIds(T)} \ {"none"}

\* a Subscribe that toggles: it removes an id that is already in the table
ApplySubscribe_Toggle(T, ts) ==
    [t \in DOMAIN T |-> IF t \in SeqToSet(ts)
                        THEN (IF T[t] = "absent" THEN "none" ELSE "absent")
                        ELSE T[t]]

\* TickerCommand::Subscribe: subscribed.insert(*token, None)
ApplySubscribe(T, ts) ==
    [t \in DOMAIN T |-> IF t \in SeqToSet(ts) THEN "none" ELSE T[t]]

\* an Unsubscribe that clears the table instead of removing the listed ids
ApplyUnsubscribe_Clear(T, ts) ==
    [t \in DOMAIN T |-> IF ts # <<>> THEN "absent" ELSE T[t]]

\* TickerCommand::Unsubscribe: subscribed.remove(token)
ApplyUnsubscribe(T, ts) ==
    [t \in DOMAIN T |-> IF t \in SeqToSet(ts) THEN "absent" ELSE T[t]]

\* a SetMode that updates the ids already in the table and creates no entry
ApplySetMode_PresentOnly(T, m, ts) ==
    [t \in DOMAIN T |-> IF t \in SeqToSet(ts) /\ T[t] # "absent" THEN m ELSE T[t]]

\* TickerCommand::SetMode: subscribed.insert(*token, Some(mode))
ApplySetMode(T, m, ts) ==
    [t \in DOMAIN T |-> IF t \in SeqToSet(ts) THEN m ELSE T[t]]

ApplyCommand(T, c) ==
    CASE c.type = "Subscribe" -> ApplySubscribe(T, c.tokens)
      [] c.type = "Unsubscribe" -> ApplyUnsubscribe(T, c.tokens)
      [] c.type = "SetMode" -> ApplySetMode(T, c.mode, c.tokens)

\* impl Display for Mode: the name a mode is written as
ModeDisplay(m) ==
    CASE m = "LTP" -> "ltp"
      [] m = "Quote" -> "quote"
      [] m = "Full" -> "full"

\* TickerInput with the value of a mode change laid out as [ids, name]
WireMessage_IdsFirst(c) ==
    CASE c.type = "Subscribe" -> [a |-> "subscribe", v |-> c.tokens]
      [] c.type = "Unsubscribe" -> [a |-> "unsubscribe", v |-> c.tokens]
      [] c.type = "SetMode" -> [a |-> "mode", v |-> <<c.tokens, ModeDisplay(c.mode)>>]

\* TickerInput serialised for a command: action "a" and value "v"
WireMessage(c) ==
    CASE c.type = "Subscribe" -> [a |-> "subscribe", v |-> c.tokens]
      [] c.type = "Unsubscribe" -> [a |-> "unsubscribe", v |-> c.tokens]
      [] c.type = "SetMode" -> [a |-> "mode", v |-> <<ModeDisplay(c.mode), c.tokens>>]

(***************************************************************************)
(* resubscribe: the commands replayed from a snapshot T of the table.       *)
(* `order` is the order in which the HashMap of tokens is iterated and      *)
(* `mode_order` the order in which the HashMap of mode groups is iterated.  *)
(***************************************************************************)
ModeGroup(T, order, m) == SelectSeq(order, LAMBDA t : T[t] = m)

\* a replay whose Subscribe leaves out the tokens that have a mode
ResubscribeCmds_NoModeOnly(T, order, mode_order) ==
    (IF order # <<>>
     THEN <<CmdSubscribe(SelectSeq(order, LAMBDA t : T[t] = "none"))>> ELSE <<>>)
    \o [i \in 1..Len(mode_order) |->
            CmdSetMode(mode_order[i], ModeGroup(T, order, mode_order[i]))]

ResubscribeCmds(T, order, mode_order) ==
    (IF order # <<>> THEN <<CmdSubscribe(order)>> ELSE <<>>)
    \o [i \in 1..Len(mode_order) |->
            CmdSetMode(mode_order[i], ModeGroup(T, order, mode_order[i]))]

\* every command sequence resubscribe can produce from T
Resubscribe(T) ==
    {ResubscribeCmds(T, o, mo) : o \in Orders(TableIds(T)), mo \in Orders(TableModes(T))}

(***************************************************************************)
(* Binary frame decoder.  A buffer is a sequence of bytes; the byte at the  *)
(* source's index i is data[i + 1].  A price (f64) is the exact quotient    *)
(* num / den.  The 4-byte reads stay below 2^31 for first bytes 0..127.     *)
(***************************************************************************)
Slice(data, from, to) == SubSeq(data, from + 1, to)

\* u16::from_be_bytes
U16Be(b1, b2) == b1 * 256 + b2

\* read_u32
read_u32(data) ==
    IF Len(data) >= 4
    THEN ((data[1] * 256 + data[2]) * 256 + data[3]) * 256 + data[4]
    ELSE 0

\* read_u16
read_u16(data) == IF Len(data) >= 2 THEN U16Be(data[1], data[2]) ELSE 0

\* convert_price dividing by 100 whatever the segment
convert_price_FlatDivisor(segment, value) == [num |-> value, den |-> 100]

\* convert_price: value as f64 divided by the divisor of the segment; the
\* record [num, den] stands for the f64 the one division num / den rounds to
convert_price(segment, value) ==
    [num |-> value,
     den |-> CASE segment = NSE_CD -> 10000000
               [] segment = BSE_CD -> 10000
               [] OTHER -> 100]

ZeroPrice == [num |-> 0, den |-> 1]

\* the subtraction with its operands swapped
PriceSub_Swapped(a, b) == [minuend |-> b, subtrahend |-> a]

\* f64 subtraction of two prices: the difference of the two rounded quotients,
\* rounded again.  It is kept as its two operands: it is not the exact
\* (a.num - b.num) / a.den, from which it differs in the last digits
\* (1573.15 - 1567.8 is 5.350000000000136)
PriceSub(a, b) == [minuend |-> a, subtrahend |-> b]

\* a conversion that takes zero for the epoch
from_timestamp_Epoch(t) == [null |-> FALSE, secs |-> t]

\* Time::from_timestamp: zero is the null time
from_timestamp(t) == IF t = 0 THEN [null |-> TRUE, secs |-> 0]
                     ELSE [null |-> FALSE, secs |-> t]

NullTime == [null |-> TRUE, secs |-> 0]

DefaultDepthItem == [price |-> ZeroPrice, quantity |-> 0, orders |-> 0]

DefaultDepth == [buy |-> [i \in 1..5 |-> DefaultDepthItem],
                 sell |-> [i \in 1..5 |-> DefaultDepthItem]]

DefaultOHLC == [open |-> ZeroPrice, high |-> ZeroPrice, low |-> ZeroPrice,
                close |-> ZeroPrice]

\* Tick::default() with the three fields parse_packet always sets
BaseTick(token, segment) ==
    [mode |-> "", instrument_token |-> token,
     is_tradable |-> segment # INDICES, is_index |-> segment = INDICES,
     timestamp |-> NullTime, last_trade_time |-> NullTime,
     last_price |-> ZeroPrice, last_traded_quantity |-> 0,
     total_buy_quantity |-> 0, total_sell_quantity |-> 0, volume_traded |-> 0,
     total_buy |-> 0, total_sell |-> 0, average_trade_price |-> ZeroPrice,
     oi |-> 0, oi_day_high |-> 0, oi_day_low |-> 0, net_change |-> ZeroPrice,
     ohlc |-> DefaultOHLC, depth |-> DefaultDepth]

\* one depth level read at byte offset pos
DepthItemAt(data, segment, pos) ==
    [quantity |-> read_u32(Slice(data, pos, pos + 4)),
     price |-> convert_price(segment, read_u32(Slice(data, pos + 4, pos + 8))),
     orders |-> read_u16(Slice(data, pos + 8, pos + 10))]

\* the depth loop with a strict bound test: a level that ends at the end of
\* the packet is not read
DepthOf_StrictBound(data, segment) ==
    [buy |-> [i \in 1..5 |->
                IF 64 + 12 * (i - 1) + 12 < Len(data)
                THEN DepthItemAt(data, segment, 64 + 12 * (i - 1))
                ELSE DefaultDepthItem],
     sell |-> [i \in 1..5 |->
                IF 124 + 12 * (i - 1) + 12 < Len(data)
                THEN DepthItemAt(data, segment, 124 + 12 * (i - 1))
                ELSE DefaultDepthItem]]

\* the depth loop of a full packet: buy levels from 64, sell levels from 124
DepthOf(data, segment) ==
    [buy |-> [i \in 1..5 |->
                IF 64 + 12 * (i - 1) + 12 <= Len(data)
                THEN DepthItemAt(data, segment, 64 + 12 * (i - 1))
                ELSE DefaultDepthItem],
     sell |-> [i \in 1..5 |->
                IF 124 + 12 * (i - 1) + 12 <= Len(data)
                THEN DepthItemAt(data, segment, 124 + 12 * (i - 1))
                ELSE DefaultDepthItem]]

\* the index arm choosing the mode by the segment, not by the length
IndexTick_ModeBySegment(data, base, segment) ==
    LET last_price == convert_price(segment, read_u32(Slice(data, 4, 8)))
        close_price == convert_price(segment, read_u32(Slice(data, 20, 24)))
    IN  [base EXCEPT
            !.mode = IF segment = INDICES /\ Len(data) = MODE_FULL_INDEX_LENGTH
                    THEN "full" ELSE "quote",
            !.last_price = last_price,
            !.net_change = PriceSub(last_price, close_price),
            !.ohlc = [high |-> convert_price(segment, read_u32(Slice(data, 8, 12))),
                      low |-> convert_price(segment, read_u32(Slice(data, 12, 16))),
                      open |-> convert_price(segment, read_u32(Slice(data, 16, 20))),
                      close |-> close_price],
            !.timestamp = IF Len(data) = MODE_FULL_INDEX_LENGTH
                          THEN from_timestamp(read_u32(Slice(data, 28, 32)))
                          ELSE base.timestamp]

\* the arm of parse_packet for lengths 28 and 32 (index packets)
IndexTick(data, base, segment) ==
    LET last_price == convert_price(segment, read_u32(Slice(data, 4, 8)))
        close_price == convert_price(segment, read_u32(Slice(data, 20, 24)))
    IN  [base EXCEPT
            !.mode = IF Len(data) = MODE_FULL_INDEX_LENGTH THEN "full" ELSE "quote",
            !.last_price = last_price,
            !.net_change = PriceSub(last_price, close_price),
            !.ohlc = [high |-> convert_price(segment, read_u32(Slice(data, 8, 12))),
                      low |-> convert_price(segment, read_u32(Slice(data, 12, 16))),
                      open |-> convert_price(segment, read_u32(Slice(data, 16, 20))),
                      close |-> close_price],
            !.timestamp = IF Len(data) = MODE_FULL_INDEX_LENGTH
                          THEN from_timestamp(read_u32(Slice(data, 28, 32)))
                          ELSE base.timestamp]

\* the arm of parse_packet for lengths 44 and 184 (tradable instruments)
QuoteTick(data, base, segment) ==
    LET last_price == convert_price(segment, read_u32(Slice(data, 4, 8)))
        close_price == convert_price(segment, read_u32(Slice(data, 40, 44)))
        full == Len(data) = MODE_FULL_LENGTH
    IN  [base EXCEPT
            !.mode = IF full THEN "full" ELSE "quote",
            !.last_price = last_price,
            !.last_traded_quantity = read_u32(Slice(data, 8, 12)),
            !.average_trade_price =
                convert_price(segment, read_u32(Slice(data, 12, 16))),
            !.volume_traded = read_u32(Slice(data, 16, 20)),
            !.total_buy_quantity = read_u32(Slice(data, 20, 24)),
            !.total_sell_quantity = read_u32(Slice(data, 24, 28)),
            !.net_change = PriceSub(last_price, close_price),
            !.ohlc = [open |-> convert_price(segment, read_u32(Slice(data, 28, 32))),
                      high |-> convert_price(segment, read_u32(Slice(data, 32, 36))),
                      low |-> convert_price(segment, read_u32(Slice(data, 36, 40))),
                      close |-> close_price],
            !.last_trade_time = IF full
                                THEN from_timestamp(read_u32(Slice(data, 44, 48)))
                                ELSE base.last_trade_time,
            !.oi = IF full THEN read_u32(Slice(data, 48, 52)) ELSE base.oi,
            !.oi_day_high = IF full THEN read_u32(Slice(data, 52, 56))
                            ELSE base.oi_day_high,
            !.oi_day_low = IF full THEN read_u32(Slice(data, 56, 60))
                           ELSE base.oi_day_low,
            !.timestamp = IF full THEN from_timestamp(read_u32(Slice(data, 60, 64)))
                          ELSE base.timestamp,
            !.depth = IF full THEN DepthOf(data, segment) ELSE base.depth]

\* parse_packet: Ok(tick) or Err(message)
parse_packet(data) ==
    IF Len(data) < 4 THEN [ok |-> FALSE, err |-> "Packet too short"]
    ELSE LET instrument_token == read_u32(Slice(data, 0, 4))
             segment == instrument_token % 256
             base == BaseTick(instrument_token, segment)
         IN  CASE Len(data) = MODE_LTP_LENGTH ->
                    [ok |-> TRUE,
                     tick |-> [base EXCEPT
                         !.mode = "ltp",
                         !.last_price =
                             convert_price(segment, read_u32(Slice(data, 4, 8)))]]
               [] Len(data) \in {MODE_QUOTE_INDEX_PACKET_LENGTH, MODE_FULL_INDEX_LENGTH} ->
                    [ok |-> TRUE, tick |-> IndexTick(data, base, segment)]
               [] Len(data) \in {MODE_QUOTE_LENGTH, MODE_FULL_LENGTH} ->
                    [ok |-> TRUE, tick |-> QuoteTick(data, base, segment)]
               [] OTHER -> [ok |-> FALSE,
                            err |-> "Unknown packet length: " \o ToString(Len(data))]

RECURSIVE SplitLoop(_, _, _, _)
\* the for loop of split_packets: `left` iterations remain, `offset` as in the source
SplitLoop(data, offset, left, packets) ==
    IF left = 0 \/ offset + 2 > Len(data) THEN packets
    ELSE LET packet_length == U16Be(data[offset + 1], data[offset + 2])
             start == offset + 2
         IN  IF start + packet_length > Len(data) THEN packets
             ELSE SplitLoop(data, start + packet_length, left - 1,
                            Append(packets, Slice(data, start, start + packet_length)))

\* split_packets with a loop that runs once more than the declared count
split_packets_OneMore(data) ==
    IF Len(data) < 2 THEN <<>>
    ELSE SplitLoop(data, 2, U16Be(data[1], data[2]) + 1, <<>>)

\* split_packets
split_packets(data) ==
    IF Len(data) < 2 THEN <<>>
    ELSE SplitLoop(data, 2, U16Be(data[1], data[2]), <<>>)

RECURSIVE ParseAll(_, _)
\* the loop of parse_binary: the `?` returns the first error
ParseAll(packets, ticks) ==
    IF packets = <<>> THEN [ok |-> TRUE, ticks |-> ticks]
    ELSE LET r == parse_packet(Head(packets))
         IN  IF r.ok THEN ParseAll(Tail(packets), Append(ticks, r.tick))
             ELSE [ok |-> FALSE, err |-> r.err]

\* parse_binary
parse_binary(data) == ParseAll(split_packets(data), <<>>)

(***************************************************************************)
(* Inputs: what callers submit and what the far end sends.                  *)
(***************************************************************************)
\* the commands callers submit through a TickerHandle
HandleInputs ==
    {CmdSubscribe(<<2, 1>>), CmdUnsubscribe(<<2>>),
     CmdSetMode("Full", <<1>>), CmdSetMode("Quote", <<2>>)}

\* an 8-byte packet of instrument 257 (segment 1), one of instrument 265
\* (segment 9, an index) and a packet of unrecognised length 5
PacketA == <<0, 0, 1, 1, 0, 0, 0, 100>>
PacketB == <<0, 0, 1, 9, 0, 0, 0, 200>>
PacketBad == <<0, 0, 1, 1, 0>>

RECURSIVE EncodePackets(_)
EncodePackets(packets) ==
    IF packets = <<>> THEN <<>>
    ELSE <<Len(Head(packets)) \div 256, Len(Head(packets)) % 256>>
         \o Head(packets) \o EncodePackets(Tail(packets))

\* a frame as the server lays it out: count, then length-prefixed packets
EncodeFrame(packets) ==
    <<Len(packets) \div 256, Len(packets) % 256>> \o EncodePackets(packets)

\* the binary frames the far end sends
Frames ==
    {EncodeFrame(<<PacketA, PacketB>>), EncodeFrame(<<PacketA, PacketBad, PacketB>>)}

\* the text messages the far end sends: whether the text parses as an
\* IncomingMessage, its type tag, whether its payload has the shape its type
\* expects (a string for "error", an order snapshot for "order") and the
\* string the payload is when it is one
Texts ==
    {[json |-> TRUE, type |-> "order", payload_ok |-> TRUE, data |-> ""],
     [json |-> TRUE, type |-> "error", payload_ok |-> TRUE, data |-> "token expired"],
     [json |-> TRUE, type |-> "order", payload_ok |-> FALSE, data |-> "filled"],
     [json |-> TRUE, type |-> "error", payload_ok |-> FALSE, data |-> ""],
     [json |-> TRUE, type |-> "instruments_meta", payload_ok |-> TRUE, data |-> "meta"],
     [json |-> FALSE, type |-> "", payload_ok |-> FALSE, data |-> ""]}

\* process_text_message with an Error event for every parsed "error" message
process_text_message_AnyPayload(text) ==
    IF ~text.json THEN <<>>
    ELSE CASE text.type = "error" -> <<EvError(text.data)>>
           [] text.type = "order" ->
                IF text.payload_ok THEN <<EvOrderUpdate>> ELSE <<>>
           [] OTHER -> <<>>

\* process_text_message: the events it sends
process_text_message(text) ==
    IF ~text.json THEN <<>>
    ELSE CASE text.type = "error" ->
                IF text.payload_ok THEN <<EvError(text.data)>> ELSE <<>>
           [] text.type = "order" ->
                IF text.payload_ok THEN <<EvOrderUpdate>> ELSE <<>>
           [] OTHER -> <<>>

\* a read loop that sends the ticks of a binary message before the message
BinaryEvents_TicksFirst(data) ==
    LET r == parse_binary(data)
    IN  (IF r.ok THEN [i \in 1..Len(r.ticks) |-> EvTick(r.ticks[i])]
         ELSE <<EvError("Parse error: Ticker Error: " \o r.err)>>)
        \o <<EvMessage(data)>>

\* the events the read loop sends for a binary message
BinaryEvents(data) ==
    LET r == parse_binary(data)
    IN  <<EvMessage(data)>> \o
        (IF r.ok THEN [i \in 1..Len(r.ticks) |-> EvTick(r.ticks[i])]
         ELSE <<EvError("Parse error: Ticker Error: " \o r.err)>>)

(***************************************************************************)
(* The event channel: broadcast::channel(1000).  The channel numbers the     *)
(* values it accepts and retains the newest of them; a receiver is the       *)
(* number of the value it reads next.  The values accepted so far are the    *)
(* first `backlog` events of connection 1 when a behaviour starts later      *)
(* than serve, then `log`; the channel holds the last event_capacity.        *)
(***************************************************************************)
\* the frame of two packets the far end sent before the behaviour starts
BacklogFrame == EncodeFrame(<<PacketA, PacketB>>)

BacklogEvents == BinaryEvents(BacklogFrame)

\* the number of values the channel has accepted
Sent == backlog + Len(log)

\* the p-th value the channel accepted: the backlog is the Connect of
\* connection 1, then the Message and the Ticks of each frame, whole frames
\* only
EventAt(p) ==
    IF p > backlog THEN log[p - backlog]
    ELSE IF p = 1 THEN EvConnect
    ELSE BacklogEvents[((p - 2) % Len(BacklogEvents)) + 1]

\* the smallest power of two that is at least n
NextPowerOfTwo(n) ==
    CHOOSE p \in {2 ^ i : i \in 0..16} :
        p >= n /\ \A q \in {2 ^ i : i \in 0..16} : q >= n => p <= q

\* what the channel retains: broadcast::channel rounds the capacity asked
\* for up to a power of two, so the first lag is at the 1025th unread event
ChannelCapacity == NextPowerOfTwo(BROADCAST_CAPACITY)

\* start: the values accepted before the receiver was made; next: the number
\* of the value its next recv looks for; seen: what its recv calls returned;
\* missed: the sum of the counts its Lagged errors carried
ClosedReceiver == [open |-> FALSE, start |-> 0, next |-> 1, seen |-> <<>>,
                   missed |-> 0]

\* Ticker::new drops the receiver broadcast::channel returns
NoReceivers == [r \in RxIds |-> ClosedReceiver]

\* the values that wait for receiver r, overwritten ones included
Unread(r) == Sent - rx[r].next + 1

\* a send that waits while the buffer of some receiver is full
SendReady_Backpressure ==
    \A r \in RxIds : rx[r].open => Unread(r) < event_capacity

\* `let _ = sender.send(..)`: the send neither awaits nor fails the sender
SendReady == TRUE

\* a channel that drops the new values while a receiver has `cap` values
\* waiting, and so never overwrites one
Deliver_DropNewest(L, R, evs, cap) ==
    IF \A r \in RxIds : ~R[r].open THEN L
    ELSE IF \E r \in RxIds : R[r].open /\ backlog + Len(L) - R[r].next + 1 >= cap
    THEN L
    ELSE L \o evs

\* Sender::send: with no receiver the value is returned in the Err the
\* callers discard and is not numbered; else it is the newest value of the
\* channel, in the slot of the value sent `cap` sends before it
Deliver(L, R, evs, cap) ==
    IF \A r \in RxIds : ~R[r].open THEN L ELSE L \o evs

\* the sends of a step of the Ticker or of one of its tasks
EventSend ==
    /\ SendReady
    /\ log' = Deliver(log, rx, last'.events, event_capacity)
    /\ UNCHANGED rx

\* the two ends of the event channel
chanVars == <<rx, log>>

\* the variables of the Ticker, which a caller's use of a receiver leaves alone
tickerVars == <<cfgVars, pc, serve_result, reconnect_attempt, conn, reader,
                watchdog, cmd_owner, subscribed_tokens, queue, since>>

\* TickerHandle::subscribe_events: a new receiver, at the tail of the channel
SubscribeEvents(r) ==
    /\ ~rx[r].open
    /\ rx' = [rx EXCEPT ![r] = [open |-> TRUE, start |-> Sent,
                                next |-> Sent + 1, seen |-> <<>>,
                                missed |-> 0]]
    /\ last' = Step("receiver", r, <<>>, <<>>, <<>>, "subscribed")
    /\ UNCHANGED <<tickerVars, log>>

\* Receiver::recv by the caller.  With no value waiting it waits.  When the
\* value it looks for was overwritten it returns Err(Lagged(n)), n the values
\* it skips, and moves to the oldest value the channel holds; else it returns
\* the value and moves on by one
EventRecv(r) ==
    /\ rx[r].open
    /\ Unread(r) > 0
    /\ IF Unread(r) > event_capacity
       THEN /\ rx' = [rx EXCEPT ![r].next = Sent - event_capacity + 1,
                                ![r].missed = @ + (Unread(r) - event_capacity)]
            /\ last' = Step("receiver", r, <<>>, <<>>,
                            <<Unread(r) - event_capacity>>, "lagged")
       ELSE /\ rx' = [rx EXCEPT ![r].next = @ + 1,
                                ![r].seen = Append(@, EventAt(rx[r].next))]
            /\ last' = Step("receiver", r, <<>>, <<>>, <<>>, "event")
    /\ UNCHANGED <<tickerVars, log>>

\* the caller drops its receiver
ReceiverDrop(r) ==
    /\ rx[r].open
    /\ rx' = [rx EXCEPT ![r] = ClosedReceiver]
    /\ last' = Step("receiver", r, <<>>, <<>>, <<>>, "dropped")
    /\ UNCHANGED <<tickerVars, log>>

(***************************************************************************)
(* Initial states: a Ticker as TickerBuilder::build leaves it, serve about  *)
(* to enter its loop.                                                       *)
(***************************************************************************)
InitState ==
    /\ pc = "loop_top"
    /\ serve_result = "none"
    /\ reconnect_attempt = 0
    /\ conn = 0
    /\ reader = [k \in 1..MaxConns |-> "none"]
    /\ watchdog = [k \in 1..MaxConns |-> "none"]
    /\ cmd_owner = 0
    /\ subscribed_tokens = EmptyTable
    /\ queue = <<>>
    /\ since = 0
    /\ last = Step("init", 0, <<>>, <<>>, <<>>, "")
    /\ rx = NoReceivers
    /\ backlog = 0
    /\ log = <<>>
    /\ call = NoCall
    /\ table_lock = Unlocked
    /\ is_reconnect = FALSE
    /\ error_msg = ""
    /\ msg = NoMessages

Init ==
    /\ auto_reconnect \in BOOLEAN
    /\ reconnect_max_retries \in {0, MaxRetries}
    /\ reconnect_max_delay = DEFAULT_RECONNECT_MAX_DELAY
    /\ connect_timeout = DEFAULT_CONNECT_TIMEOUT
    /\ url_ok \in BOOLEAN
    /\ overflow_checks = FALSE
    /\ event_capacity = ChannelCapacity
    /\ InitState

\* the Ticker is dropped when serve returns or panics: a receiver it still
\* holds is dropped with it, and the commands waiting in the channel are lost
DropTicker ==
    IF cmd_owner = 0 THEN cmd_owner' = -1 /\ queue' = <<>>
    ELSE UNCHANGED <<cmd_owner, queue>>

(***************************************************************************)
(* The serve loop.  A step holds at most one operation on what the tasks    *)
(* and the callers share: a send on a channel, the last ping time, the      *)
(* lock of the table, the socket, the drop of the Ticker.                   *)
(***************************************************************************)
\* what a step of serve on the event channel alone leaves alone
ServeFrame == <<setupVars, table_lock, msg, conn, reader, watchdog, cmd_owner,
                subscribed_tokens, queue, since>>

\* top of the loop with the retries exhausted: NoReconnect, then return Err
ServeExhausted ==
    /\ pc = "loop_top"
    /\ RetriesExhausted(reconnect_attempt, reconnect_max_retries)
    /\ pc' = "return"
    /\ error_msg' = "Maximum reconnect attempts reached"
    /\ last' = Step("serve_exhausted", 0, <<EvNoReconnect(reconnect_attempt)>>,
                    <<>>, <<>>, "")
    /\ UNCHANGED <<ServeFrame, serve_result, reconnect_attempt, is_reconnect>>
    /\ EventSend

\* return Err(TickerError { message: error_msg }): serve is over and the
\* Ticker it owns is dropped
ServeReturn ==
    /\ pc = "return"
    /\ pc' = "returned"
    /\ serve_result' = error_msg
    /\ DropTicker
    /\ last' = Step("serve_return", 0, <<>>, <<>>, <<>>, "err")
    /\ UNCHANGED <<cfgVars, reconnect_attempt, conn, reader, watchdog,
                   subscribed_tokens, since>>
    /\ EventSend

\* a reconnect: compute the delay, announce it, sleep
ServeBackoff ==
    /\ pc = "loop_top"
    /\ ~RetriesExhausted(reconnect_attempt, reconnect_max_retries)
    /\ reconnect_attempt > 0
    /\ IF Pow2U64(reconnect_attempt).overflow /\ overflow_checks
       THEN /\ pc' = "panicked"
            /\ serve_result' = "panic"
            /\ DropTicker
            /\ last' = Step("serve_backoff", 0, <<>>, <<>>, <<>>, "panic")
       ELSE /\ pc' = "connect"
            /\ last' = Step("serve_backoff", 0,
                    <<EvReconnect(reconnect_attempt,
                                  NextDelay(reconnect_attempt, reconnect_max_delay))>>,
                    <<>>, <<>>, "")
            /\ UNCHANGED <<serve_result, cmd_owner, queue>>
    /\ UNCHANGED <<cfgVars, reconnect_attempt, conn, reader, watchdog,
                   subscribed_tokens, since>>
    /\ EventSend

\* the first pass of the loop: no delay
ServeFirstAttempt ==
    /\ pc = "loop_top"
    /\ ~RetriesExhausted(reconnect_attempt, reconnect_max_retries)
    /\ reconnect_attempt = 0
    /\ pc' = "connect"
    /\ last' = Step("serve_first", 0, <<>>, <<>>, <<>>, "")
    /\ UNCHANGED <<cfgVars, serve_result, reconnect_attempt, conn, reader, watchdog,
                   cmd_owner, subscribed_tokens, queue, since>>
    /\ EventSend

\* the Display of the errors Url::parse is made to return
UrlErrors == {"relative URL without a base"}

\* Url::parse fails: the `?` returns the error
ServeBadUrl ==
    /\ pc = "connect"
    /\ ~url_ok
    /\ pc' = "returned"
    /\ \E e \in UrlErrors : serve_result' = "Invalid URL: " \o e
    /\ DropTicker
    /\ last' = Step("serve_bad_url", 0, <<>>, <<>>, <<>>, "err")
    /\ UNCHANGED <<cfgVars, reconnect_attempt, conn, reader, watchdog,
                   subscribed_tokens, since>>
    /\ EventSend

\* the two failing arms of the connect match, Ok(Err(e)) and Err(_) (timeout):
\* the Error event, then the return or the next pass of the loop
ConnectFails(actor, message) ==
    /\ pc = "connect"
    /\ url_ok
    /\ last' = Step(actor, 0, <<EvError(message)>>, <<>>, <<>>, "")
    /\ IF ~auto_reconnect
       THEN /\ pc' = "return"
            /\ error_msg' = message
            /\ UNCHANGED reconnect_attempt
       ELSE /\ pc' = "loop_top"
            /\ reconnect_attempt' = reconnect_attempt + 1
            /\ UNCHANGED error_msg
    /\ UNCHANGED <<ServeFrame, serve_result, is_reconnect>>
    /\ EventSend

\* the Display of the errors connect_async is made to return
ConnectErrors == {"IO error: Connection refused (os error 111)"}

\* the decimals of a Duration's Debug form: f milliseconds past the second
DebugFraction(f) ==
    IF f = 0 THEN ""
    ELSE IF f % 100 = 0 THEN "." \o ToString(f \div 100)
    ELSE IF f % 10 = 0
         THEN "." \o (IF f < 100 THEN "0" ELSE "") \o ToString(f \div 10)
    ELSE "." \o (IF f < 10 THEN "00" ELSE IF f < 100 THEN "0" ELSE "")
             \o ToString(f)

\* {:?} of a Duration of ms whole milliseconds
DebugDuration(ms) ==
    IF ms = 0 THEN "0ns"
    ELSE IF ms < 1000 THEN ToString(ms) \o "ms"
    ELSE ToString(ms \div 1000) \o DebugFraction(ms % 1000) \o "s"

ConnectFailed ==
    \E e \in ConnectErrors :
        ConnectFails("connect_failed", "Connection failed: " \o e)

\* a timeout that is retried whatever auto_reconnect says
ConnectTimedOut_AlwaysRetry ==
    /\ pc = "connect"
    /\ url_ok
    /\ pc' = "loop_top"
    /\ reconnect_attempt' = reconnect_attempt + 1
    /\ UNCHANGED error_msg
    /\ last' = Step("connect_timeout", 0,
                    <<EvError("Connection timed out after "
                              \o DebugDuration(connect_timeout))>>,
                    <<>>, <<>>, "")
    /\ UNCHANGED <<ServeFrame, serve_result, is_reconnect>>
    /\ EventSend

ConnectTimedOut ==
    ConnectFails("connect_timeout",
                 "Connection timed out after " \o DebugDuration(connect_timeout))

\* a successful connection that keeps the count of the attempts before it
ConnectOk_NoReset ==
    /\ pc = "connect"
    /\ url_ok
    /\ conn < MaxConns
    /\ is_reconnect' = (reconnect_attempt > 0)
    /\ reconnect_attempt' = reconnect_attempt
    /\ conn' = conn + 1
    /\ pc' = "connected"
    /\ last' = Step("connect_ok", conn + 1, <<EvConnect>>, <<>>, <<>>,
                    IF reconnect_attempt > 0 THEN "reconnect" ELSE "first")
    /\ UNCHANGED <<setupVars, table_lock, msg, error_msg, serve_result, reader,
                   watchdog, cmd_owner, subscribed_tokens, queue, since>>
    /\ EventSend

\* the Ok(Ok(..)) arm up to its Connect event: is_reconnect is taken, the
\* counter is reset, Connect is sent
ConnectOk ==
    /\ pc = "connect"
    /\ url_ok
    /\ conn < MaxConns
    /\ is_reconnect' = (reconnect_attempt > 0)
    /\ reconnect_attempt' = 0
    /\ conn' = conn + 1
    /\ pc' = "connected"
    /\ last' = Step("connect_ok", conn + 1, <<EvConnect>>, <<>>, <<>>,
                    IF reconnect_attempt > 0 THEN "reconnect" ELSE "first")
    /\ UNCHANGED <<setupVars, table_lock, msg, error_msg, serve_result, reader,
                   watchdog, cmd_owner, subscribed_tokens, queue, since>>
    /\ EventSend

\* self.last_ping_time.set(SystemTime::now()); on a reconnect resubscribe is
\* called and awaits the read lock of the table, on the first connection
\* handle_connection is called
SetLastPingTime ==
    /\ pc = "connected"
    /\ since' = 0
    /\ is_reconnect' = FALSE
    /\ IF is_reconnect
       THEN /\ pc' = "resubscribe"
            /\ table_lock' = [table_lock EXCEPT !.rs_pc = "lock"]
       ELSE /\ pc' = "handle_connection"
            /\ UNCHANGED table_lock
    /\ last' = Step("set_last_ping_time", conn, <<>>, <<>>, <<>>, "")
    /\ UNCHANGED <<setupVars, error_msg, msg, serve_result, reconnect_attempt,
                   conn, reader, watchdog, cmd_owner, subscribed_tokens, queue>>
    /\ EventSend

\* subscribed_tokens.read().await completes: no write guard is out
ResubscribeLock ==
    /\ pc = "resubscribe"
    /\ table_lock.rs_pc = "lock"
    /\ ~table_lock.writer
    /\ table_lock' = [table_lock EXCEPT !.rs_pc = "block", !.reader = TRUE]
    /\ last' = Step("resubscribe_lock", conn, <<>>, <<>>, <<>>, "read_guard")
    /\ UNCHANGED <<setupVars, serveLocals, msg, pc, serve_result, reconnect_attempt,
                   conn, reader, watchdog, cmd_owner, subscribed_tokens, queue, since>>
    /\ EventSend

\* the block of resubscribe: tokens and mode groups are collected, then the
\* guard is dropped at the closing brace; with nothing to send resubscribe
\* returns Ok and handle_connection is called
ResubscribeBlock ==
    /\ pc = "resubscribe"
    /\ table_lock.rs_pc = "block"
    /\ \E replay \in Resubscribe(subscribed_tokens) :
         /\ table_lock' = [table_lock EXCEPT
                             !.rs_pc = IF replay = <<>> THEN "idle" ELSE "send",
                             !.reader = FALSE,
                             !.pending = replay]
         /\ pc' = IF replay = <<>> THEN "handle_connection" ELSE "resubscribe"
    /\ last' = Step("resubscribe_block", conn, <<>>, <<>>, <<>>, "block")
    /\ UNCHANGED <<setupVars, serveLocals, msg, serve_result, reconnect_attempt,
                   conn, reader, watchdog, cmd_owner, subscribed_tokens, queue, since>>
    /\ EventSend

\* the Display of the TickerError resubscribe returns when the send of
\* command c finds the receiver of the command channel gone
ResubscribeError(c) ==
    "Ticker Error: " \o (IF c.type = "Subscribe" THEN "Failed to resubscribe"
                         ELSE "Failed to set mode during resubscribe")

\* UnboundedSender::send fails only when the receiver is gone
SendFails == cmd_owner = -1

\* one command_sender.send of resubscribe: the next command of the replay goes
\* to the tail of the channel, and after the last resubscribe returns Ok; a
\* send that finds the receiver gone makes resubscribe return its error, for
\* which serve sends the Error event; handle_connection is called after both
ResubscribeSend ==
    /\ pc = "resubscribe"
    /\ table_lock.rs_pc = "send"
    /\ LET c == Head(table_lock.pending)
           rest == Tail(table_lock.pending)
       IN  IF SendFails
           THEN /\ UNCHANGED queue
                /\ table_lock' = [table_lock EXCEPT !.rs_pc = "idle",
                                                    !.pending = <<>>]
                /\ pc' = "handle_connection"
                /\ last' = Step("resubscribe", conn,
                        <<EvError("Resubscribe failed: " \o ResubscribeError(c))>>,
                        <<>>, <<>>, "err")
           ELSE /\ queue' = Append(queue, c)
                /\ table_lock' = [table_lock EXCEPT
                                    !.rs_pc = IF rest = <<>> THEN "idle" ELSE "send",
                                    !.pending = rest]
                /\ pc' = IF rest = <<>> THEN "handle_connection" ELSE "resubscribe"
                /\ last' = Step("resubscribe", conn, <<>>, <<c>>, <<>>, "ok")
    /\ UNCHANGED <<setupVars, serveLocals, msg, serve_result, reconnect_attempt,
                   conn, reader, watchdog, cmd_owner, subscribed_tokens, since>>
    /\ EventSend

\* handle_connection up to its select!: the watchdog with auto-reconnect, the
\* command task when the receiver is still in the Ticker, the read task.
\* Nothing in it awaits, and a task spawned later is not looked at by one
\* spawned earlier
HandleConnection ==
    /\ pc = "handle_connection"
    /\ watchdog' = [watchdog EXCEPT
                      ![conn] = IF auto_reconnect THEN "running" ELSE "none"]
    /\ cmd_owner' = IF cmd_owner = 0 THEN conn ELSE cmd_owner
    /\ reader' = [reader EXCEPT ![conn] = "running"]
    /\ pc' = "run"
    /\ last' = Step("handle_connection", conn, <<>>, <<>>, <<>>, "spawned")
    /\ UNCHANGED <<cfgVars, serve_result, reconnect_attempt, conn,
                   subscribed_tokens, queue, since>>
    /\ EventSend

\* a branch of the select! is ready: the read task finished, the watchdog
\* finished or was never spawned, the command task was never spawned
SelectReady ==
    \/ reader[conn] = "ended"
    \/ watchdog[conn] \in {"none", "ended"}
    \/ cmd_owner # conn

\* select! completes, handle_connection returns Ok(()) and the loop goes on;
\* the JoinHandles are dropped, which detaches the tasks
RunPhaseEnd ==
    /\ pc = "run"
    /\ SelectReady
    /\ pc' = "loop_top"
    /\ reconnect_attempt' = reconnect_attempt + 1
    /\ last' = Step("run_end", conn, <<>>, <<>>, <<>>, "ok")
    /\ UNCHANGED <<cfgVars, serve_result, conn, reader, watchdog, cmd_owner,
                   subscribed_tokens, queue, since>>
    /\ EventSend

(***************************************************************************)
(* The tasks spawned by handle_connection.  A task spawned for connection k *)
(* runs until its own loop ends: dropping its JoinHandle does not stop it.  *)
(***************************************************************************)
\* what a step of a read loop leaves alone
ReaderFrame == <<setupVars, table_lock, serveLocals, pc, serve_result,
                 reconnect_attempt, conn, watchdog, cmd_owner, subscribed_tokens,
                 queue>>

\* the read loop of connection k waits in read.next()
ReaderWaits(k) == reader[k] = "running" /\ msg[k].kind = ""

\* Ok(Message::Binary(data)): the last ping time is set; the Message event
\* and the events of parse_binary are still to send
ReaderBinary(k) ==
    /\ ReaderWaits(k)
    /\ \E data \in Frames :
         msg' = [msg EXCEPT ![k] = [kind |-> "binary", data |-> data,
                                    sent |-> <<>>, todo |-> BinaryEvents(data)]]
    /\ since' = 0
    /\ last' = Step("reader", k, <<>>, <<>>, <<>>, "binary")
    /\ UNCHANGED <<ReaderFrame, reader>>
    /\ EventSend

\* Ok(Message::Text(text)): the last ping time is set; the Message event and
\* the event of process_text_message are still to send
ReaderText(k) ==
    /\ ReaderWaits(k)
    /\ \E text \in Texts :
         msg' = [msg EXCEPT ![k] =
                    [kind |-> "text", data |-> text, sent |-> <<>>,
                     todo |-> <<EvMessage(text)>> \o process_text_message(text)]]
    /\ since' = 0
    /\ last' = Step("reader", k, <<>>, <<>>, <<>>, "text")
    /\ UNCHANGED <<ReaderFrame, reader>>
    /\ EventSend

\* Ok(Message::Close(close_frame)), with a frame or without one: the last
\* ping time is set; the Close event is still to send
ReaderClose(k) ==
    /\ ReaderWaits(k)
    /\ \E ev \in {EvClose(1001, "going away"), EvClose(1000, "Normal closure")} :
         msg' = [msg EXCEPT ![k] = [kind |-> "close", data |-> <<>>,
                                    sent |-> <<>>, todo |-> <<ev>>]]
    /\ since' = 0
    /\ last' = Step("reader", k, <<>>, <<>>, <<>>, "close")
    /\ UNCHANGED <<ReaderFrame, reader>>
    /\ EventSend

\* one sender.send of the arm of the message in hand; after the last the loop
\* reads on, and after the Close event it breaks
ReaderSend(k) ==
    /\ reader[k] = "running"
    /\ msg[k].kind # ""
    /\ LET ev == Head(msg[k].todo)
           rest == Tail(msg[k].todo)
       IN  /\ msg' = [msg EXCEPT ![k] =
                        IF rest = <<>> THEN NoMessage
                        ELSE [@ EXCEPT !.sent = Append(@, ev), !.todo = rest]]
           /\ reader' = [reader EXCEPT ![k] =
                           IF rest = <<>> /\ msg[k].kind = "close" THEN "ended"
                           ELSE "running"]
           /\ last' = Step("reader_send", k, <<ev>>, <<>>, <<>>, msg[k].kind)
    /\ UNCHANGED <<ReaderFrame, since>>
    /\ EventSend

\* the Display of the errors the stream is made to return
ReadErrors ==
    {"IO error: Connection reset by peer (os error 104)",
     "Connection closed normally",
     "Trying to work with closed connection"}

\* Err(e) from the stream: the Error event, break
ReaderError(k) ==
    /\ ReaderWaits(k)
    /\ \E e \in ReadErrors :
         last' = Step("reader", k, <<EvError("WebSocket error: " \o e)>>,
                      <<>>, <<>>, "error")
    /\ reader' = [reader EXCEPT ![k] = "ended"]
    /\ UNCHANGED <<ReaderFrame, msg, since>>
    /\ EventSend

\* any other message (ping, pong, raw frame): the `_ => {}` arm
ReaderOther(k) ==
    /\ ReaderWaits(k)
    /\ last' = Step("reader", k, <<>>, <<>>, <<>>, "other")
    /\ UNCHANGED <<ReaderFrame, msg, reader, since>>
    /\ EventSend

\* read.next() yields None: the stream is over
ReaderEnd(k) ==
    /\ ReaderWaits(k)
    /\ last' = Step("reader", k, <<>>, <<>>, <<>>, "end")
    /\ reader' = [reader EXCEPT ![k] = "ended"]
    /\ UNCHANGED <<ReaderFrame, msg, since>>
    /\ EventSend

\* what a step of a watchdog leaves alone
WatchdogFrame == <<cfgVars, pc, serve_result, reconnect_attempt, conn, reader,
                   cmd_owner, subscribed_tokens, queue, since>>

\* the watchdog wakes, reads the last ping time and finds it older than the
\* data timeout
WatchdogExpired(k) ==
    /\ watchdog[k] = "running"
    /\ since > DATA_TIMEOUT_INTERVAL
    /\ watchdog' = [watchdog EXCEPT ![k] = "expired"]
    /\ last' = Step("watchdog", k, <<>>, <<>>, <<>>, "expired")
    /\ UNCHANGED WatchdogFrame
    /\ EventSend

\* the Error event of the watchdog, return
WatchdogFire(k) ==
    /\ watchdog[k] = "expired"
    /\ watchdog' = [watchdog EXCEPT ![k] = "ended"]
    /\ last' = Step("watchdog", k, <<EvError("Data timeout: No data received for 5 seconds")>>, <<>>, <<>>, "fired")
    /\ UNCHANGED WatchdogFrame
    /\ EventSend

\* the watchdog wakes and finds the last ping recent enough: it sleeps again
WatchdogPass(k) ==
    /\ watchdog[k] = "running"
    /\ ~(since > DATA_TIMEOUT_INTERVAL)
    /\ last' = Step("watchdog", k, <<>>, <<>>, <<>>, "passed")
    /\ UNCHANGED <<WatchdogFrame, watchdog>>
    /\ EventSend

\* time passes, one watchdog sleep at a time, with no inbound message; the
\* clock is read by the watchdogs alone, so it is advanced while one runs and
\* no further once it is past the data timeout
ClockTick ==
    /\ \E k \in 1..MaxConns : watchdog[k] = "running"
    /\ since <= DATA_TIMEOUT_INTERVAL
    /\ since' = since + CONNECTION_CHECK_INTERVAL
    /\ last' = Step("clock", 0, <<>>, <<>>, <<>>, "")
    /\ UNCHANGED <<cfgVars, pc, serve_result, reconnect_attempt, conn, reader,
                   watchdog, cmd_owner, subscribed_tokens, queue>>
    /\ UNCHANGED chanVars

\* whether the socket of connection k still takes writes: not after its
\* stream delivered a close frame, an error or its end
SocketOpen(k) == reader[k] = "running" /\ msg[k].kind # "close"

\* the Display of the errors the sink's send is made to return
WriteErrors == {"Trying to work with closed connection"}

\* what a step of the command task leaves alone
CommandFrame == <<setupVars, serveLocals, msg, pc, serve_result, reconnect_attempt,
                  conn, reader, watchdog, since>>

\* the command loop taking the newest command of the channel, not the oldest
CommandRecv_Lifo ==
    /\ cmd_owner >= 1
    /\ table_lock.cmd_pc = "recv"
    /\ queue # <<>>
    /\ table_lock' = [table_lock EXCEPT !.cmd_pc = "lock",
                                        !.cmd = <<queue[Len(queue)]>>]
    /\ queue' = SubSeq(queue, 1, Len(queue) - 1)
    /\ last' = Step("command_recv", cmd_owner, <<>>, <<queue[Len(queue)]>>, <<>>,
                    "recv")
    /\ UNCHANGED <<CommandFrame, cmd_owner, subscribed_tokens>>
    /\ EventSend

\* command_rx.recv().await yields the oldest command; the arm then awaits the
\* write lock of the table
CommandRecv ==
    /\ cmd_owner >= 1
    /\ table_lock.cmd_pc = "recv"
    /\ queue # <<>>
    /\ table_lock' = [table_lock EXCEPT !.cmd_pc = "lock", !.cmd = <<Head(queue)>>]
    /\ queue' = Tail(queue)
    /\ last' = Step("command_recv", cmd_owner, <<>>, <<Head(queue)>>, <<>>, "recv")
    /\ UNCHANGED <<CommandFrame, cmd_owner, subscribed_tokens>>
    /\ EventSend

\* subscribed_tokens.write().await completes: no guard is out
CommandLock ==
    /\ table_lock.cmd_pc = "lock"
    /\ ~table_lock.writer
    /\ ~table_lock.reader
    /\ table_lock' = [table_lock EXCEPT !.cmd_pc = "block", !.writer = TRUE]
    /\ last' = Step("command_lock", cmd_owner, <<>>, <<>>, <<>>, "write_guard")
    /\ UNCHANGED <<CommandFrame, cmd_owner, subscribed_tokens, queue>>
    /\ EventSend

\* a command block that keeps its guard until the socket write is done
CommandBlock_GuardKept ==
    /\ table_lock.cmd_pc = "block"
    /\ subscribed_tokens' = ApplyCommand(subscribed_tokens, table_lock.cmd[1])
    /\ table_lock' = [table_lock EXCEPT !.cmd_pc = "write"]
    /\ last' = Step("command_block", cmd_owner, <<>>, table_lock.cmd, <<>>, "block")
    /\ UNCHANGED <<CommandFrame, cmd_owner, queue>>
    /\ EventSend

\* the block of the arm: the loop over the tokens, then the guard is dropped
\* at the closing brace
CommandBlock ==
    /\ table_lock.cmd_pc = "block"
    /\ subscribed_tokens' = ApplyCommand(subscribed_tokens, table_lock.cmd[1])
    /\ table_lock' = [table_lock EXCEPT !.cmd_pc = "write", !.writer = FALSE]
    /\ last' = Step("command_block", cmd_owner, <<>>, table_lock.cmd, <<>>, "block")
    /\ UNCHANGED <<CommandFrame, cmd_owner, queue>>
    /\ EventSend

\* a command loop that ends at the first write that fails
CommandWrite_StopOnError ==
    /\ table_lock.cmd_pc = "write"
    /\ LET c == table_lock.cmd[1]
       IN  \E ok \in {SocketOpen(cmd_owner)} \cup {FALSE}, e \in WriteErrors :
                /\ last' = Step("command", cmd_owner, <<>>, <<c>>,
                     <<[conn |-> cmd_owner, msg |-> WireMessage(c), ok |-> ok]>>,
                     IF ok THEN "ok" ELSE "err")
                /\ table_lock' =
                     IF ok
                     THEN [table_lock EXCEPT !.cmd_pc = "recv", !.cmd = <<>>,
                                             !.writer = FALSE]
                     ELSE [table_lock EXCEPT !.cmd_pc = "error",
                             !.cmd_err = "Failed to send WebSocket message: " \o e]
                /\ cmd_owner' = IF ok THEN cmd_owner ELSE -1
    /\ UNCHANGED <<CommandFrame, subscribed_tokens, queue>>
    /\ EventSend

\* write.send(..).await on the write half this task owns: done, the arm is
\* over and the loop is back at recv; failed, the Error event is still to send
CommandWrite ==
    /\ table_lock.cmd_pc = "write"
    /\ LET c == table_lock.cmd[1]
       IN  \E ok \in {SocketOpen(cmd_owner)} \cup {FALSE}, e \in WriteErrors :
                /\ last' = Step("command", cmd_owner, <<>>, <<c>>,
                     <<[conn |-> cmd_owner, msg |-> WireMessage(c), ok |-> ok]>>,
                     IF ok THEN "ok" ELSE "err")
                /\ table_lock' =
                     IF ok
                     THEN [table_lock EXCEPT !.cmd_pc = "recv", !.cmd = <<>>,
                                             !.writer = FALSE]
                     ELSE [table_lock EXCEPT !.cmd_pc = "error",
                             !.cmd_err = "Failed to send WebSocket message: " \o e]
    /\ UNCHANGED <<CommandFrame, cmd_owner, subscribed_tokens, queue>>
    /\ EventSend

\* the Error event for the write that failed, then back to recv; a guard
\* still held at the end of the arm is dropped there
CommandError ==
    /\ table_lock.cmd_pc = "error"
    /\ last' = Step("command_error", cmd_owner, <<EvError(table_lock.cmd_err)>>,
                    table_lock.cmd, <<>>, "err")
    /\ table_lock' = [table_lock EXCEPT !.cmd_pc = "recv", !.cmd = <<>>,
                                        !.cmd_err = "", !.writer = FALSE]
    /\ UNCHANGED <<CommandFrame, cmd_owner, subscribed_tokens, queue>>
    /\ EventSend

\* the steps of the command task
Command ==
    \/ CommandRecv
    \/ CommandLock
    \/ CommandBlock
    \/ CommandWrite
    \/ CommandError

(***************************************************************************)
(* TickerHandle::subscribe / unsubscribe / set_mode: an unbounded send.     *)
(***************************************************************************)
\* a call of the Handle with one of the commands of `inputs`
HandleSendOf(inputs) ==
    /\ \E c \in inputs :
         IF SendFails
         THEN /\ last' = Step("handle", 0, <<>>, <<>>, <<>>, "err")
              /\ UNCHANGED queue
         ELSE /\ Len(queue) < MaxQueue
              /\ queue' = Append(queue, c)
              /\ last' = Step("handle", 0, <<>>, <<c>>, <<>>, "ok")
    /\ UNCHANGED <<cfgVars, pc, serve_result, reconnect_attempt, conn, reader,
                   watchdog, cmd_owner, subscribed_tokens, since>>
    /\ UNCHANGED chanVars

HandleSend == HandleSendOf(HandleInputs)

(***************************************************************************)
(* Specifications.                                                          *)
(***************************************************************************)
\* the steps of serve but the sends of the replay
ServeLoop ==
    \/ ServeExhausted
    \/ ServeReturn
    \/ ServeBackoff
    \/ ServeFirstAttempt
    \/ ServeBadUrl
    \/ ConnectFailed
    \/ ConnectTimedOut
    \/ ConnectOk
    \/ SetLastPingTime
    \/ ResubscribeLock
    \/ ResubscribeBlock
    \/ HandleConnection
    \/ RunPhaseEnd

Serve == ServeLoop \/ ResubscribeSend

Tasks ==
    \E k \in 1..MaxConns :
        \/ ReaderBinary(k)
        \/ ReaderText(k)
        \/ ReaderClose(k)
        \/ ReaderSend(k)
        \/ ReaderError(k)
        \/ ReaderOther(k)
        \/ ReaderEnd(k)
        \/ WatchdogExpired(k)
        \/ WatchdogFire(k)
        \/ WatchdogPass(k)

Next == Serve \/ Tasks \/ Command \/ HandleSend \/ ClockTick

Spec == Init /\ [][Next]_vars

\* the connection life cycle alone: no caller submits a command, so the
\* channel and the table stay empty and resubscribe finds nothing to send
NextLifecycle == ServeLoop \/ Tasks \/ ClockTick

SpecLifecycle == Init /\ [][NextLifecycle]_vars

\* the watchdog of every connection made so far: none is aborted, so each
\* runs until it has seen the data timeout
Watchdogs ==
    \E k \in 1..MaxConns :
        \/ WatchdogExpired(k)
        \/ WatchdogFire(k)
        \/ WatchdogPass(k)

\* the read loop of every connection, the far end sending nothing but a close
FarEndCloses ==
    \E k \in 1..MaxConns :
        \/ ReaderClose(k)
        \/ ReaderSend(k)

\* the read loop of every connection, the far end sending nothing and ending
\* the stream
FarEndEnds == \E k \in 1..MaxConns : ReaderEnd(k)

\* the attempts of serve alone: no caller, and a far end that closes a
\* connection or lets it time out
NextAttempts ==
    \/ ServeLoop
    \/ FarEndCloses
    \/ Watchdogs
    \/ ClockTick

SpecAttempts == Init /\ [][NextAttempts]_vars

\* the command path: callers, the command task and the replay, with a far
\* end that ends the stream of a connection or lets it time out; the callers
\* set the mode of one id and subscribe it with another
CommandInputs == {CmdSetMode("Full", <<1>>), CmdSubscribe(<<2, 1>>)}

NextCommands ==
    \/ Serve
    \/ Command
    \/ HandleSendOf(CommandInputs)
    \/ FarEndEnds
    \/ Watchdogs
    \/ ClockTick

SpecCommands == Init /\ [][NextCommands]_vars

\* the table across the life cycle.  Connection 1 is in its run phase, both
\* ids were subscribed on it and a caller has just asked to unsubscribe one;
\* the callers submit nothing more, and the far end closes a connection or
\* lets it time out
InitPersist ==
    /\ auto_reconnect = TRUE
    /\ reconnect_max_retries = MaxRetries
    /\ reconnect_max_delay = DEFAULT_RECONNECT_MAX_DELAY
    /\ connect_timeout = DEFAULT_CONNECT_TIMEOUT
    /\ url_ok = TRUE
    /\ overflow_checks = FALSE
    /\ event_capacity = ChannelCapacity
    /\ pc = "run"
    /\ serve_result = "none"
    /\ reconnect_attempt = 0
    /\ conn = 1
    /\ reader = [k \in 1..MaxConns |-> IF k = 1 THEN "running" ELSE "none"]
    /\ watchdog = [k \in 1..MaxConns |-> IF k = 1 THEN "running" ELSE "none"]
    /\ cmd_owner = 1
    /\ subscribed_tokens = [t \in Tokens |-> "none"]
    /\ queue = <<CmdUnsubscribe(<<2>>)>>
    /\ since = 0
    /\ last = Step("handle", 0, <<>>, <<CmdUnsubscribe(<<2>>)>>, <<>>, "ok")
    /\ rx = NoReceivers
    /\ backlog = 0
    /\ log = <<>>
    /\ call = NoCall
    /\ table_lock = Unlocked
    /\ is_reconnect = FALSE
    /\ error_msg = ""
    /\ msg = NoMessages

NextPersist ==
    \/ ServeExhausted
    \/ ServeReturn
    \/ ServeBackoff
    \/ ConnectFailed
    \/ ConnectTimedOut
    \/ ConnectOk
    \/ SetLastPingTime
    \/ ResubscribeLock
    \/ ResubscribeBlock
    \/ ResubscribeSend
    \/ HandleConnection
    \/ RunPhaseEnd
    \/ Command
    \/ FarEndCloses
    \/ Watchdogs
    \/ ClockTick

SpecPersist == InitPersist /\ [][NextPersist]_vars

\* the command loop on its own: connection 1 is in its run phase, the table is
\* any table the commands can build and the channel holds the same command
\* twice
Tables == [Tokens -> {"absent", "none"} \cup Mode]

TableInputs ==
    {CmdSubscribe(<<1>>), CmdSubscribe(<<2, 1>>), CmdSubscribe(<<2, 2>>),
     CmdUnsubscribe(<<2>>), CmdUnsubscribe(<<1, 2>>),
     CmdSetMode("LTP", <<1>>), CmdSetMode("Quote", <<2, 1>>), CmdSetMode("Full", <<2>>)}

InitTable ==
    /\ auto_reconnect = TRUE
    /\ reconnect_max_retries = MaxRetries
    /\ reconnect_max_delay = DEFAULT_RECONNECT_MAX_DELAY
    /\ connect_timeout = DEFAULT_CONNECT_TIMEOUT
    /\ url_ok = TRUE
    /\ overflow_checks = FALSE
    /\ event_capacity = ChannelCapacity
    /\ pc = "run"
    /\ serve_result = "none"
    /\ reconnect_attempt = 0
    /\ conn = 1
    /\ reader = [k \in 1..MaxConns |-> IF k = 1 THEN "running" ELSE "none"]
    /\ watchdog = [k \in 1..MaxConns |-> IF k = 1 THEN "running" ELSE "none"]
    /\ cmd_owner = 1
    /\ subscribed_tokens \in Tables
    /\ \E c \in TableInputs : queue = <<c, c>>
    /\ since = 0
    /\ last = Step("handle_connection", 1, <<>>, <<>>, <<>>, "spawned")
    /\ rx = NoReceivers
    /\ backlog = 0
    /\ log = <<>>
    /\ call = NoCall
    /\ table_lock = Unlocked
    /\ is_reconnect = FALSE
    /\ error_msg = ""
    /\ msg = NoMessages

NextTable == Command

SpecTable == InitTable /\ [][NextTable]_vars

(***************************************************************************)
(* The decoder called on its own: split_packets, parse_packet and           *)
(* convert_price are public associated functions, the tests call them       *)
(* directly.                                                                *)
(***************************************************************************)
\* the sub-packets laid out in a buffer: 8 bytes, 5 bytes, none
PacketPool == {PacketA, PacketBad, <<>>}

PacketLists == UNION {[1..n -> PacketPool] : n \in 0..MaxPackets}

\* the count a buffer declares: fewer, as many or more than it holds
DeclaredCounts == 0..(MaxPackets + 1)

Prefixes(s) == {SubSeq(s, 1, n) : n \in 0..Len(s)}

FrameWithCount(n, ps) == <<n \div 256, n % 256>> \o EncodePackets(ps)

\* the buffers handed to split_packets: frames, cut short anywhere
Buffers ==
    UNION {Prefixes(FrameWithCount(n, ps)) : n \in DeclaredCounts, ps \in PacketLists}

\* the lengths of the packets handed to parse_packet
PacketLengths == {0, 3, 4, 8, 12, 28, 32, 44, 64, 184, 185}

\* the low byte of the instrument token
Segments == {0, 1, NSE_CD, BSE_CD, INDICES}

\* the three high bytes of the instrument token
TokenHeads == {<<0, 0, 1>>, <<1, 2, 3>>}

\* the 4-byte words 0, 157315 and 157315000
WordZero == <<0, 0, 0, 0>>
Word157315 == <<0, 2, 102, 131>>
Word157315000 == <<9, 96, 111, 184>>

Fills == {"zero", "ramp", "157315", "157315000"}

\* the byte at 0-based index i of a packet filled in the given way; a ramp
\* gives every field its own value
Fill(kind, i) ==
    CASE kind = "zero" -> WordZero[(i % 4) + 1]
      [] kind = "157315" -> Word157315[(i % 4) + 1]
      [] kind = "157315000" -> Word157315000[(i % 4) + 1]
      [] OTHER -> (3 * i + 1) % 128

MakePacket(len, head, segment, kind) ==
    [i \in 1..len |-> IF i <= 3 THEN head[i]
                      ELSE IF i = 4 THEN segment
                      ELSE Fill(kind, i - 1)]

\* the packets handed to parse_packet
Packets ==
    {MakePacket(len, head, segment, kind) :
        len \in PacketLengths, head \in TokenHeads, segment \in Segments,
        kind \in Fills}

\* the raw prices handed to convert_price
RawPrices == {0, 1, 157315, 157315000}

\* what a call of a decoder function leaves alone; the functions keep no
\* state, so one call per behaviour shows all they do
DecodeFrame == <<auto_reconnect, reconnect_max_retries, reconnect_max_delay,
                 connect_timeout, url_ok, overflow_checks, event_capacity, pc, serve_result,
                 reconnect_attempt, conn, reader, watchdog, cmd_owner,
                 subscribed_tokens, queue, since, last, rx, backlog, log, table_lock,
                 is_reconnect, error_msg, msg>>

CallSplitPackets ==
    /\ call = NoCall
    /\ \E data \in Buffers :
         call' = [fn |-> "split_packets", arg |-> data, ret |-> split_packets(data)]
    /\ UNCHANGED DecodeFrame

CallParsePacket ==
    /\ call = NoCall
    /\ \E data \in Packets :
         call' = [fn |-> "parse_packet", arg |-> data, ret |-> parse_packet(data)]
    /\ UNCHANGED DecodeFrame

CallConvertPrice ==
    /\ call = NoCall
    /\ \E segment \in Segments, value \in RawPrices :
         call' = [fn |-> "convert_price", arg |-> <<segment, value>>,
                  ret |-> convert_price(segment, value)]
    /\ UNCHANGED DecodeFrame

\* a Ticker as Ticker::new leaves it; the decoder does not look at it
InitDecode ==
    /\ auto_reconnect = TRUE
    /\ reconnect_max_retries = DEFAULT_RECONNECT_MAX_ATTEMPTS
    /\ reconnect_max_delay = DEFAULT_RECONNECT_MAX_DELAY
    /\ connect_timeout = DEFAULT_CONNECT_TIMEOUT
    /\ url_ok = TRUE
    /\ overflow_checks = FALSE
    /\ event_capacity = ChannelCapacity
    /\ InitState

NextDecode == CallSplitPackets \/ CallParsePacket \/ CallConvertPrice

SpecDecode == InitDecode /\ [][NextDecode]_vars

(***************************************************************************)
(* Configuration: the setters of a Ticker and TickerBuilder::build, before  *)
(* serve is called.  A Duration is its number of milliseconds.              *)
(***************************************************************************)
\* the delays a caller tries
DelayInputs == {0, 1000, 4999, 5000, 5500, 7000, 60000, 90000}

\* a setter that takes every delay
set_reconnect_max_delay_NoFloor(cur, delay) ==
    [ok |-> TRUE, delay |-> delay, err |-> ""]

\* Ticker::set_reconnect_max_delay on a Ticker whose maximum delay is cur
set_reconnect_max_delay(cur, delay) ==
    IF delay < RECONNECT_MIN_DELAY
    THEN [ok |-> FALSE, delay |-> cur,
          err |-> "ReconnectMaxDelay can't be less than "
                  \o ToString(RECONNECT_MIN_DELAY) \o "ms"]
    ELSE [ok |-> TRUE, delay |-> delay, err |-> ""]

\* Ticker::new has returned a Ticker the caller may configure, or a
\* TickerBuilder is about to make one in build
InitConfig ==
    /\ auto_reconnect = TRUE
    /\ reconnect_max_retries = DEFAULT_RECONNECT_MAX_ATTEMPTS
    /\ reconnect_max_delay = DEFAULT_RECONNECT_MAX_DELAY
    /\ connect_timeout = DEFAULT_CONNECT_TIMEOUT
    /\ url_ok = TRUE
    /\ overflow_checks = FALSE
    /\ event_capacity = ChannelCapacity
    /\ pc \in {"new", "builder"}
    /\ serve_result = "none"
    /\ reconnect_attempt = 0
    /\ conn = 0
    /\ reader = [k \in 1..MaxConns |-> "none"]
    /\ watchdog = [k \in 1..MaxConns |-> "none"]
    /\ cmd_owner = 0
    /\ subscribed_tokens = EmptyTable
    /\ queue = <<>>
    /\ since = 0
    /\ last = Step("init", 0, <<>>, <<>>, <<>>, "")
    /\ rx = NoReceivers
    /\ backlog = 0
    /\ log = <<>>
    /\ call = NoCall
    /\ table_lock = Unlocked
    /\ is_reconnect = FALSE
    /\ error_msg = ""
    /\ msg = NoMessages

\* what no configuration call changes
ConfigFrame == <<overflow_checks, event_capacity, call, table_lock, is_reconnect,
                 error_msg, msg, serve_result, reconnect_attempt, conn, reader,
                 watchdog, cmd_owner, subscribed_tokens, queue, since, rx, backlog,
                 log>>

\* the caller sets the maximum delay of the Ticker it holds
SetReconnectMaxDelay ==
    /\ pc = "new"
    /\ \E delay \in DelayInputs :
         LET r == set_reconnect_max_delay(reconnect_max_delay, delay)
         IN  /\ reconnect_max_delay' = r.delay
             /\ last' = Step("set_reconnect_max_delay", 0, <<>>, <<>>, <<delay>>,
                             IF r.ok THEN "ok" ELSE r.err)
    /\ UNCHANGED <<ConfigFrame, pc, connect_timeout, auto_reconnect,
                   reconnect_max_retries, url_ok>>

\* the timeouts a caller sets
TimeoutInputs == {1500, DEFAULT_CONNECT_TIMEOUT}

\* Ticker::set_connect_timeout: a plain assignment, any Duration is taken
SetConnectTimeout ==
    /\ pc = "new"
    /\ \E timeout \in TimeoutInputs :
         /\ connect_timeout' = timeout
         /\ last' = Step("set_connect_timeout", 0, <<>>, <<>>, <<timeout>>, "ok")
    /\ UNCHANGED <<ConfigFrame, pc, reconnect_max_delay, auto_reconnect,
                   reconnect_max_retries, url_ok>>

\* Ticker::set_auto_reconnect
SetAutoReconnect ==
    /\ pc = "new"
    /\ \E enable \in BOOLEAN :
         /\ auto_reconnect' = enable
         /\ last' = Step("set_auto_reconnect", 0, <<>>, <<>>, <<enable>>, "ok")
    /\ UNCHANGED <<ConfigFrame, pc, reconnect_max_delay, connect_timeout,
                   reconnect_max_retries, url_ok>>

\* the retry budgets a caller sets: an i32, negative ones included
RetriesInputs == {0 - 1, 0, MaxRetries, DEFAULT_RECONNECT_MAX_ATTEMPTS}

\* Ticker::set_reconnect_max_retries: a plain assignment
SetReconnectMaxRetries ==
    /\ pc = "new"
    /\ \E retries \in RetriesInputs :
         /\ reconnect_max_retries' = retries
         /\ last' = Step("set_reconnect_max_retries", 0, <<>>, <<>>, <<retries>>,
                         "ok")
    /\ UNCHANGED <<ConfigFrame, pc, reconnect_max_delay, connect_timeout,
                   auto_reconnect, url_ok>>

\* Ticker::set_root_url: any String is stored; whether Url::parse takes it is
\* found out by serve
SetRootUrl ==
    /\ pc = "new"
    /\ \E parses \in BOOLEAN :
         /\ url_ok' = parses
         /\ last' = Step("set_root_url", 0, <<>>, <<>>, <<parses>>, "ok")
    /\ UNCHANGED <<ConfigFrame, pc, reconnect_max_delay, connect_timeout,
                   auto_reconnect, reconnect_max_retries>>

\* the values a field of the builder can hold: None (val is not read), or
\* Some(v) for a v of S
Options(S, unread) ==
    {[some |-> FALSE, val |-> unread]} \cup {[some |-> TRUE, val |-> v] : v \in S}

\* the builders a caller hands to build
Builders ==
    [url : Options(BOOLEAN, TRUE),
     auto_reconnect : Options(BOOLEAN, TRUE),
     reconnect_max_retries : Options({0, MaxRetries}, 0),
     reconnect_max_delay : Options(DelayInputs, 0),
     connect_timeout : Options(TimeoutInputs, 0)]

\* TickerBuilder::build: Ticker::new, then the setter of each option that is
\* Some, in the order url, auto_reconnect, retries, delay, timeout; the `?`
\* returns the error of the delay setter, the timeout is not reached and the
\* Ticker just made is dropped
BuilderBuild ==
    /\ pc = "builder"
    /\ \E b \in Builders :
         LET r == IF b.reconnect_max_delay.some
                  THEN set_reconnect_max_delay(DEFAULT_RECONNECT_MAX_DELAY,
                                               b.reconnect_max_delay.val)
                  ELSE [ok |-> TRUE, delay |-> DEFAULT_RECONNECT_MAX_DELAY,
                        err |-> ""]
         IN  /\ url_ok' = IF b.url.some THEN b.url.val ELSE url_ok
             /\ auto_reconnect' = IF b.auto_reconnect.some
                                  THEN b.auto_reconnect.val ELSE auto_reconnect
             /\ reconnect_max_retries' =
                    IF b.reconnect_max_retries.some
                    THEN b.reconnect_max_retries.val ELSE reconnect_max_retries
             /\ reconnect_max_delay' = r.delay
             /\ connect_timeout' = IF r.ok /\ b.connect_timeout.some
                                   THEN b.connect_timeout.val
                                   ELSE connect_timeout
             /\ pc' = IF r.ok THEN "new" ELSE "build_failed"
             /\ last' = Step("build", 0, <<>>, <<>>, <<b>>,
                             IF r.ok THEN "ok" ELSE r.err)
    /\ UNCHANGED ConfigFrame

\* the caller hands the Ticker to serve
ServeCalled ==
    /\ pc = "new"
    /\ pc' = "loop_top"
    /\ last' = Step("serve_called", 0, <<>>, <<>>, <<>>, "")
    /\ UNCHANGED <<ConfigFrame, reconnect_max_delay, connect_timeout,
                   auto_reconnect, reconnect_max_retries, url_ok>>

\* the configuration calls, then serve against a far end that takes no
\* connection
NextConfig ==
    \/ SetReconnectMaxDelay
    \/ SetConnectTimeout
    \/ SetAutoReconnect
    \/ SetReconnectMaxRetries
    \/ SetRootUrl
    \/ BuilderBuild
    \/ ServeCalled
    \/ ServeFirstAttempt
    \/ ServeBackoff
    \/ ServeExhausted
    \/ ServeReturn
    \/ ServeBadUrl
    \/ ConnectFailed
    \/ ConnectTimedOut

SpecConfig == InitConfig /\ [][NextConfig]_vars

(***************************************************************************)
(* The producers of events next to the receivers of a caller.               *)
(***************************************************************************)
\* a receiver subscribed before serve that has read nothing
UnreadReceiver == [ClosedReceiver EXCEPT !.open = TRUE]

\* the number of events sent once connection 1 was made and its read loop
\* has handled n frames: the loop sends the Message and the Ticks of a frame
\* without a suspension between them, so an idle loop has sent whole frames
BacklogAfter(n) == 1 + n * Len(BacklogEvents)

\* the most frames whose events, with the Connect, leave room in the channel
FramesShortOfFull == (ChannelCapacity - 2) \div Len(BacklogEvents)

\* the events sent before the behaviour starts when a receiver exists: the
\* last whole frame short of what the channel retains, and two frames more,
\* which is more than it retains
UnreadBacklogs ==
    {BacklogAfter(FramesShortOfFull), BacklogAfter(FramesShortOfFull + 2)}

\* connection 1 is in its run phase and a caller has just submitted a
\* command; the far end closes a connection or lets it time out.
\* Either the caller holds no receiver and the Ticker has a retry budget, or
\* the caller holds a receiver it subscribed before serve and never read,
\* which it may drop, and the Ticker has no retry budget
InitEvents ==
    /\ auto_reconnect = TRUE
    /\ reconnect_max_delay = DEFAULT_RECONNECT_MAX_DELAY
    /\ connect_timeout = DEFAULT_CONNECT_TIMEOUT
    /\ url_ok = TRUE
    /\ overflow_checks = FALSE
    /\ event_capacity = ChannelCapacity
    /\ pc = "run"
    /\ serve_result = "none"
    /\ reconnect_attempt = 0
    /\ conn = 1
    /\ reader = [k \in 1..MaxConns |-> IF k = 1 THEN "running" ELSE "none"]
    /\ watchdog = [k \in 1..MaxConns |-> IF k = 1 THEN "running" ELSE "none"]
    /\ cmd_owner = 1
    /\ subscribed_tokens = EmptyTable
    /\ queue = <<CmdSubscribe(<<1>>)>>
    /\ since = 0
    /\ last = Step("handle", 0, <<>>, <<CmdSubscribe(<<1>>)>>, <<>>, "ok")
    /\ \/ /\ reconnect_max_retries = MaxRetries
          /\ rx = NoReceivers
          /\ backlog = 0
       \/ /\ reconnect_max_retries = 0
          /\ rx = [NoReceivers EXCEPT ![1] = UnreadReceiver]
          /\ backlog \in UnreadBacklogs
    /\ log = <<>>
    /\ call = NoCall
    /\ table_lock = Unlocked
    /\ is_reconnect = FALSE
    /\ error_msg = ""
    /\ msg = NoMessages

\* the steps the far end decides: it accepts or refuses a connection, and
\* it closes one
EventsFarEnd ==
    \/ ConnectFailed
    \/ ConnectOk
    \/ \E k \in 1..MaxConns : ReaderClose(k)

NextEvents ==
    \/ ServeExhausted
    \/ ServeReturn
    \/ ServeBackoff
    \/ SetLastPingTime
    \/ ResubscribeLock
    \/ ResubscribeBlock
    \/ ResubscribeSend
    \/ HandleConnection
    \/ RunPhaseEnd
    \/ \E k \in 1..MaxConns : ReaderSend(k)
    \/ Watchdogs
    \/ Command
    \/ EventsFarEnd
    \/ ClockTick
    \/ ReceiverDrop(1)

SpecEvents == InitEvents /\ [][NextEvents]_vars

\* the tasks are tokio tasks: one that can take its next step without waiting
\* for the far end, the clock or the caller is polled again and takes it
SpecEventsFair ==
    /\ SpecEvents
    /\ WF_vars(ServeExhausted \/ ServeReturn \/ ServeBackoff \/ SetLastPingTime
               \/ ResubscribeLock \/ ResubscribeBlock \/ ResubscribeSend
               \/ HandleConnection \/ RunPhaseEnd)
    /\ WF_vars(Command)
    /\ \A k \in 1..MaxConns :
         /\ WF_vars(ReaderSend(k))
         /\ WF_vars(WatchdogExpired(k) \/ WatchdogFire(k))

\* two receivers and the read loop of connection 1 in its run phase.  Both
\* receivers were subscribed before serve and have read nothing; the far end
\* sends binary frames, often enough for the watchdog to pass; the callers
\* read, drop their receivers and subscribe again
InitReceivers ==
    /\ auto_reconnect = TRUE
    /\ reconnect_max_retries = MaxRetries
    /\ reconnect_max_delay = DEFAULT_RECONNECT_MAX_DELAY
    /\ connect_timeout = DEFAULT_CONNECT_TIMEOUT
    /\ url_ok = TRUE
    /\ overflow_checks = FALSE
    /\ event_capacity = ChannelCapacity
    /\ pc = "run"
    /\ serve_result = "none"
    /\ reconnect_attempt = 0
    /\ conn = 1
    /\ reader = [k \in 1..MaxConns |-> IF k = 1 THEN "running" ELSE "none"]
    /\ watchdog = [k \in 1..MaxConns |-> IF k = 1 THEN "running" ELSE "none"]
    /\ cmd_owner = 1
    /\ subscribed_tokens = EmptyTable
    /\ queue = <<>>
    /\ since = 0
    /\ last = Step("handle_connection", 1, <<>>, <<>>, <<>>, "spawned")
    /\ rx = [r \in RxIds |-> UnreadReceiver]
    /\ backlog = BacklogAfter(FramesShortOfFull)
    /\ log = <<>>
    /\ call = NoCall
    /\ table_lock = Unlocked
    /\ is_reconnect = FALSE
    /\ error_msg = ""
    /\ msg = NoMessages

\* the far end sends MaxEvents events' worth of frames more, and a caller
\* takes no more than MaxReads events from a receiver
NextReceivers ==
    \/ Len(log) < MaxEvents /\ ReaderBinary(1)
    \/ ReaderSend(1)
    \/ WatchdogPass(1)
    \/ \E r \in RxIds :
         \/ SubscribeEvents(r)
         \/ Len(rx[r].seen) < MaxReads /\ EventRecv(r)
         \/ ReceiverDrop(r)

SpecReceivers == InitReceivers /\ [][NextReceivers]_vars

\* persistent failure under the default retry budget: every connection
\* attempt fails or times out
InitBackoff ==
    /\ auto_reconnect = TRUE
    /\ reconnect_max_retries = DEFAULT_RECONNECT_MAX_ATTEMPTS
    /\ reconnect_max_delay \in {RECONNECT_MIN_DELAY, DEFAULT_RECONNECT_MAX_DELAY}
    /\ connect_timeout = DEFAULT_CONNECT_TIMEOUT
    /\ url_ok = TRUE
    /\ overflow_checks \in BOOLEAN
    /\ event_capacity = ChannelCapacity
    /\ InitState

NextBackoff ==
    \/ ServeExhausted
    \/ ServeReturn
    \/ ServeBackoff
    \/ ServeFirstAttempt
    \/ ConnectFailed
    \/ ConnectTimedOut

SpecBackoff == InitBackoff /\ [][NextBackoff]_vars

(***************************************************************************)
(* The RwLock of the table: the command loop and resubscribe on their own,   *)
(* from every table and every command.                                       *)
(***************************************************************************)
\* serve is about to reconnect while the command task of connection 1 runs
\* and a caller's command waits in the channel
InitLock ==
    /\ auto_reconnect = TRUE
    /\ reconnect_max_retries = MaxRetries
    /\ reconnect_max_delay = DEFAULT_RECONNECT_MAX_DELAY
    /\ connect_timeout = DEFAULT_CONNECT_TIMEOUT
    /\ url_ok = TRUE
    /\ overflow_checks = FALSE
    /\ event_capacity = ChannelCapacity
    /\ pc = "connect"
    /\ serve_result = "none"
    /\ reconnect_attempt = 1
    /\ conn = 1
    /\ reader = [k \in 1..MaxConns |-> IF k = 1 THEN "running" ELSE "none"]
    /\ watchdog = [k \in 1..MaxConns |-> IF k = 1 THEN "ended" ELSE "none"]
    /\ cmd_owner = 1
    /\ subscribed_tokens \in Tables
    /\ \E c \in TableInputs : queue = <<c>>
    /\ since = 0
    /\ last = Step("init", 0, <<>>, <<>>, <<>>, "")
    /\ rx = NoReceivers
    /\ backlog = 0
    /\ log = <<>>
    /\ call = NoCall
    /\ table_lock = Unlocked
    /\ is_reconnect = FALSE
    /\ error_msg = ""
    /\ msg = NoMessages

NextLock ==
    \/ ConnectOk
    \/ SetLastPingTime
    \/ ResubscribeLock
    \/ ResubscribeBlock
    \/ ResubscribeSend
    \/ HandleConnection
    \/ Command

SpecLock == InitLock /\ [][NextLock]_vars

(***************************************************************************)
(* A reconnect replay next to the callers.  The callers of this slice       *)
(* remove token 2 and add token 1 and submit nothing else, so that every    *)
(* other command on the channel is a replayed one.                          *)
(***************************************************************************)
RaceInputs == {CmdUnsubscribe(<<2>>), CmdSubscribe(<<1>>)}

\* serve has announced the reconnect after connection 1 and is about to
\* connect again; the command task of connection 1 runs
InitRace ==
    /\ auto_reconnect = TRUE
    /\ reconnect_max_retries = MaxRetries
    /\ reconnect_max_delay = DEFAULT_RECONNECT_MAX_DELAY
    /\ connect_timeout = DEFAULT_CONNECT_TIMEOUT
    /\ url_ok = TRUE
    /\ overflow_checks = FALSE
    /\ event_capacity = ChannelCapacity
    /\ pc = "connect"
    /\ serve_result = "none"
    /\ reconnect_attempt = 1
    /\ conn = 1
    /\ reader = [k \in 1..MaxConns |-> IF k = 1 THEN "ended" ELSE "none"]
    /\ watchdog = [k \in 1..MaxConns |-> IF k = 1 THEN "running" ELSE "none"]
    /\ cmd_owner = 1
    /\ subscribed_tokens \in Tables
    /\ queue = <<>>
    /\ since = 0
    /\ last = Step("serve_backoff", 0,
                   <<EvReconnect(1, NextDelay(1, DEFAULT_RECONNECT_MAX_DELAY))>>,
                   <<>>, <<>>, "")
    /\ rx = NoReceivers
    /\ backlog = 0
    /\ log = <<>>
    /\ call = NoCall
    /\ table_lock = Unlocked
    /\ is_reconnect = FALSE
    /\ error_msg = ""
    /\ msg = NoMessages

NextRace ==
    \/ HandleSendOf(RaceInputs)
    \/ ConnectOk
    \/ SetLastPingTime
    \/ ResubscribeLock
    \/ ResubscribeBlock
    \/ ResubscribeSend
    \/ HandleConnection
    \/ Command

SpecRace == InitRace /\ [][NextRace]_vars

\* the same reconnect with no caller: the replay, the command task and the
\* read loops, the far end sending binary, text and close messages
NextOrder ==
    \/ ConnectOk
    \/ SetLastPingTime
    \/ ResubscribeLock
    \/ ResubscribeBlock
    \/ ResubscribeSend
    \/ HandleConnection
    \/ Command
    \/ \E k \in 1..MaxConns : ReaderBinary(k)
    \/ \E k \in 1..MaxConns : ReaderText(k)
    \/ \E k \in 1..MaxConns : ReaderClose(k)
    \/ \E k \in 1..MaxConns : ReaderSend(k)

SpecOrder == InitRace /\ [][NextOrder]_vars

(***************************************************************************)
(* Properties.                                                              *)
(***************************************************************************)
ServeActors == {"serve_exhausted", "serve_return", "serve_backoff", "serve_first",
                "serve_bad_url", "connect_failed", "connect_timeout", "connect_ok",
                "set_last_ping_time", "resubscribe_lock", "resubscribe_block",
                "resubscribe", "handle_connection", "run_end"}

\* the steps of the command task: taking a command, taking the write guard,
\* the block that updates the table, the socket write, the Error event of a
\* write that failed
CommandActors == {"command_recv", "command_lock", "command_block", "command",
                  "command_error"}

ServeOver == pc \in {"returned", "panicked"}

\* the ticks carried by the Tick events of a sequence of events, in order
TicksIn(events) ==
    LET evs == SelectSeq(events, LAMBDA e : e.type = "Tick")
    IN  [i \in 1..Len(evs) |-> evs[i].tick]

C1_Step ==
    /\ (/\ pc = "loop_top"
        /\ reconnect_attempt > reconnect_max_retries
        /\ last'.actor \in ServeActors)
       => last'.actor = "serve_exhausted"
    /\ last'.actor = "serve_exhausted"
       => /\ reconnect_attempt > reconnect_max_retries
          /\ last'.events = <<EvNoReconnect(reconnect_attempt)>>
          /\ pc' = "return"
          /\ error_msg' = "Maximum reconnect attempts reached"
    /\ pc = "return"
       => /\ error_msg' = error_msg
          /\ conn' = conn
          /\ last'.actor \in ServeActors
             => /\ last'.actor = "serve_return"
                /\ last'.events = <<>>
                /\ pc' = "returned"
                /\ serve_result' = error_msg
    /\ "NoReconnect" \in EventTypes(last') => last'.actor = "serve_exhausted"
    /\ ServeOver
       => /\ pc' = pc
          /\ conn' = conn
          /\ last'.actor \notin ServeActors
          /\ EventTypes(last') \cap {"Reconnect", "NoReconnect", "Connect"} = {}

\* C1: once the attempt count exceeds reconnect_max_retries, the next step of
\* serve emits exactly one NoReconnect event, and the step of serve after it
\* returns the fatal error with no event; a NoReconnect event is emitted by
\* that step alone, and after serve has returned there is no step of serve:
\* no connection attempt, no Reconnect, no second NoReconnect.
C1_RetryExhaustion == [][C1_Step]_vars

\* serve gave up after a connection had been established and lost
C1_Witness ==
    /\ last.actor = "serve_return"
    /\ pc = "returned"
    /\ serve_result = "Maximum reconnect attempts reached"
    /\ reconnect_attempt = reconnect_max_retries + 1
    /\ reconnect_max_retries >= 1
    /\ conn >= 1

\* C2: with auto-reconnect disabled, the end of the run phase of an
\* established connection makes serve return: the step that ends the run
\* phase leaves serve about to return, no Reconnect event follows the first
\* connection and no second connection is attempted.
C2_DisabledReconnectTerminates ==
    (~auto_reconnect /\ conn >= 1)
    => /\ last.actor = "run_end" => pc \in {"return", "returned"}
       /\ "Reconnect" \notin EventTypes(last)
       /\ pc \in {"connected", "handle_connection", "run", "return", "returned"}
       /\ conn = 1

\* C3: the command task writes every wire message to the connection that is
\* active, the one established last, never to an earlier connection.
C3_WritesGoToActiveConnection ==
    last.actor = "command"
    => \A i \in 1..Len(last.writes) : last.writes[i].conn = conn

\* what the replay of table T must be: nothing for an empty table, else one
\* Subscribe listing every id once, then one SetMode per explicit mode of the
\* table listing exactly the ids of that mode once
ReplayExact(r, T) ==
    LET ids == {t \in Tokens : T[t] # "absent"}
        modes == {T[t] : t \in ids} \cap Mode
    IN  IF ids = {} THEN r = <<>>
        ELSE /\ Len(r) = 1 + Cardinality(modes)
             /\ r[1].type = "Subscribe"
             /\ NoDup(r[1].tokens)
             /\ SeqToSet(r[1].tokens) = ids
             /\ \A i \in 2..Len(r) :
                    /\ r[i].type = "SetMode"
                    /\ r[i].mode \in modes
                    /\ NoDup(r[i].tokens)
                    /\ SeqToSet(r[i].tokens) = {t \in ids : T[t] = r[i].mode}
             /\ \A i, j \in 2..Len(r) : i # j => r[i].mode # r[j].mode

C4_Step ==
    /\ last'.actor = "resubscribe_block"
       => /\ ReplayExact(table_lock'.pending, subscribed_tokens)
          /\ subscribed_tokens' = subscribed_tokens
    /\ last'.actor \notin {"resubscribe", "resubscribe_block"}
       => table_lock'.pending = table_lock.pending
    /\ last'.actor = "resubscribe"
       => /\ table_lock.rs_pc = "send"
          /\ last'.result = "ok"
          /\ last'.cmds = <<Head(table_lock.pending)>>
          /\ queue' = Append(queue, Head(table_lock.pending))
          /\ table_lock'.pending = Tail(table_lock.pending)
          /\ pc' = IF Tail(table_lock.pending) = <<>> THEN "handle_connection"
                   ELSE "resubscribe"
    /\ (pc = "resubscribe" /\ pc' # "resubscribe") => table_lock'.pending = <<>>
    /\ (last'.actor \in ServeActors /\ last'.actor # "resubscribe")
       => last'.cmds = <<>>

\* C4: the commands a successful reconnect puts on the channel are exactly
\* one Subscribe with every id once that the table holds when resubscribe
\* reads it, followed by one SetMode per distinct explicit mode with exactly
\* the ids of that mode; ids without a mode are in no SetMode and an empty
\* table replays nothing: the block of resubscribe collects that sequence,
\* each send puts its next command at the tail of the channel, resubscribe
\* returns when none is left, and serve puts no other command on the channel.
C4_ReplayExact == [][C4_Step]_vars

\* a reconnect replayed a Subscribe and two SetMode commands, the command task
\* having taken nothing in between
C4_Witness ==
    /\ last.actor = "resubscribe"
    /\ last.result = "ok"
    /\ pc = "handle_connection"
    /\ Len(queue) = 4
    /\ queue[2].type = "Subscribe"
    /\ queue[3].type = "SetMode"
    /\ queue[4].type = "SetMode"
    /\ queue[3].mode # queue[4].mode
    /\ last.cmds = <<queue[4]>>

C5_Step ==
    (last'.actor = "command_block" /\ last'.cmds[1].type = "Subscribe")
    => \A t \in Tokens :
         /\ subscribed_tokens[t] \in Mode
            => subscribed_tokens'[t] = subscribed_tokens[t]
         /\ subscribed_tokens[t] = "absent"
            => subscribed_tokens'[t] =
                 IF t \in SeqToSet(last'.cmds[1].tokens) THEN "none" ELSE "absent"
         /\ subscribed_tokens[t] = "none" => subscribed_tokens'[t] = "none"

\* C5: applying Subscribe(ids) inserts an id without a mode only when the id is
\* absent, and leaves the explicit mode of an id that has one unchanged.
C5_SubscribeKeepsMode == [][C5_Step]_vars

\* C6: once handle_connection has returned for a connection, no task spawned
\* for it emits an event, updates the last ping time, consumes a command or
\* changes the table: such a step belongs to the connection in its run phase.
C6_SiblingsCancelled ==
    (\/ last.actor = "reader" /\ last.result \in {"binary", "text", "close", "error"}
     \/ last.actor = "reader_send"
     \/ last.actor = "watchdog" /\ last.result = "fired"
     \/ last.actor \in {"command_recv", "command_block", "command", "command_error"})
    => (last.conn = conn /\ pc = "run")

\* C7: every run phase has a read loop, a command loop and a watchdog, and it
\* ends only when one of the three has ended.
C7_RunPhaseStaysActive ==
    /\ pc = "run"
       => /\ reader[conn] = "running" \/ reader[conn] = "ended"
          /\ watchdog[conn] # "none"
          /\ cmd_owner = conn
    /\ last.actor = "run_end"
       => reader[conn] = "ended" \/ watchdog[conn] = "ended"

\* min(2^n s, max_delay) in milliseconds for max_delay below 2^16 s, 2^n
\* wrapping to 0 from n = 64 on
ExpectedDelay(n, max_delay) ==
    IF n >= 64 THEN 0
    ELSE IF n >= 16 THEN max_delay
    ELSE Min(2 ^ n * 1000, max_delay)

\* C8: for every reconnect attempt n up to reconnect_max_retries a delay of
\* min(2^n s, reconnect_max_delay) is announced, and the delay announced for
\* attempt n is not below the one announced for attempt n - 1.
C8_BackoffMonotone ==
    /\ serve_result # "panic"
    /\ last.actor = "serve_backoff"
       => /\ Len(last.events) = 1
          /\ last.events[1].type = "Reconnect"
          /\ last.events[1].attempt = reconnect_attempt
          /\ last.events[1].delay = ExpectedDelay(reconnect_attempt, reconnect_max_delay)
          /\ reconnect_attempt > 1
             => last.events[1].delay >=
                  ExpectedDelay(reconnect_attempt - 1, reconnect_max_delay)

\* the ticks of the sub-packets of a frame that decode, in frame order
DecodableTicks(data) ==
    LET packets == split_packets(data)
        good == SelectSeq(packets, LAMBDA p : parse_packet(p).ok)
    IN  [i \in 1..Len(good) |-> parse_packet(good[i]).tick]

\* C9: a binary frame delivers the tick of every sub-packet that decodes,
\* those before and after a sub-packet of unrecognised length included, and
\* the read loop goes on: the events of the frame a read loop has in hand,
\* those sent and those still to send, carry exactly these ticks.
C9_BadSubPacketSkipped ==
    \A k \in 1..MaxConns :
        msg[k].kind = "binary"
        => /\ TicksIn(msg[k].sent \o msg[k].todo) = DecodableTicks(msg[k].data)
           /\ reader[k] = "running"

\* C10: a Handle call returns an error exactly when serve is over: it
\* succeeds while serve runs and fails after serve has returned.
C10_SendFailsIffShutDown ==
    last.actor = "handle" => (last.result = "err" <=> ServeOver)

\* the steps that put commands on the channel
Enqueuers == {"handle", "resubscribe"}

\* the command loop takes the oldest command, applies it once and writes it
\* once before it takes the next; Handle calls and the replay append
C11_Queue ==
    /\ last'.actor = "command_recv"
       => /\ queue # <<>>
          /\ table_lock.cmd = <<>>
          /\ last'.cmds = <<Head(queue)>>
          /\ table_lock'.cmd = <<Head(queue)>>
          /\ queue' = Tail(queue)
    /\ last'.actor = "command_block"
       => /\ table_lock.cmd_pc = "block"
          /\ table_lock'.cmd_pc = "write"
          /\ last'.cmds = table_lock.cmd
          /\ subscribed_tokens' = ApplyCommand(subscribed_tokens, table_lock.cmd[1])
    /\ last'.actor = "command"
       => /\ table_lock.cmd_pc = "write"
          /\ last'.cmds = table_lock.cmd
          /\ Len(last'.writes) = 1
          /\ last'.writes[1].msg = WireMessage(table_lock.cmd[1])
          /\ IF last'.writes[1].ok
             THEN table_lock'.cmd = <<>> /\ table_lock'.cmd_pc = "recv"
             ELSE table_lock'.cmd = table_lock.cmd /\ table_lock'.cmd_pc = "error"
    /\ last'.actor = "command_error"
       => /\ table_lock.cmd_pc = "error"
          /\ table_lock'.cmd_pc = "recv"
          /\ table_lock'.cmd = <<>>
          /\ last'.writes = <<>>
    /\ last'.actor \notin {"command_recv", "command", "command_error"}
       => table_lock'.cmd = table_lock.cmd
    /\ (table_lock.cmd_pc # "write" /\ table_lock'.cmd_pc = "write")
       => last'.actor = "command_block"
    /\ last'.actor # "command_block" => subscribed_tokens' = subscribed_tokens
    /\ (last'.actor = "handle" /\ last'.result = "ok")
       => (Len(last'.cmds) = 1 /\ queue' = Append(queue, last'.cmds[1]))
    /\ last'.actor = "resubscribe" => queue' = queue \o last'.cmds

\* the step neither enqueues a command nor is the recv of the command loop
C11_Other ==
    \/ last'.actor \notin Enqueuers \cup {"command_recv"}
    \/ last'.actor = "handle" /\ last'.result = "err"

\* serve returns or panics holding the receiver of the command channel: the
\* Ticker is dropped and the waiting commands with it
C11_DroppedUnconnected ==
    /\ cmd_owner = 0
    /\ conn = 0
    /\ cmd_owner' = -1
    /\ pc' \in {"returned", "panicked"}
    /\ queue' = <<>>

\* C11 as stated: the command loop takes the oldest command of the channel
\* and, before it takes the next, applies it to the table once and then
\* writes its wire message once; the table changes in no other step; a Handle
\* call and each send of the replay append at the tail; and no other step
\* takes a command out of the channel, so every accepted command is applied.
C11_EveryCommandApplied == [][C11_Queue /\ (C11_Other => queue' = queue)]_vars

\* C11, amended: as stated, except that the commands still waiting when serve
\* returns or panics before any connection was established are dropped with
\* the receiver and never applied.
C11_CommandsFifoOnce ==
    [][C11_Queue /\ (C11_Other => (queue' = queue \/ C11_DroppedUnconnected))]_vars

\* two commands of a caller were waiting: the first was applied, the second
\* is still at the head of the channel
C11_Witness ==
    /\ last.actor = "command"
    /\ last.cmds = <<CmdSetMode("Full", <<1>>)>>
    /\ queue = <<CmdSubscribe(<<2, 1>>)>>
    /\ subscribed_tokens[1] = "Full"

\* no connection is active: serve is at the top of its loop, sleeping or
\* connecting, and the connection established last, if any, has ended
NoActiveConnection ==
    /\ pc \in {"loop_top", "connect"}
    /\ conn = 0 \/ reader[conn] = "ended"

C12_Step ==
    (/\ NoActiveConnection
     /\ last.actor = "handle"
     /\ last.result = "ok"
     /\ queue = last.cmds)
    => last'.actor # "command_recv"

\* C12: a command submitted while no connection is active stays on the
\* channel: the command loop does not take it, to apply it and write it,
\* before serve has established the next connection.
C12_QueuedUntilConnected == [][C12_Step]_vars

C13_Step ==
    /\ last'.actor # "command_block" => subscribed_tokens' = subscribed_tokens
    /\ \A t \in Tokens :
         (subscribed_tokens[t] # "absent" /\ subscribed_tokens'[t] = "absent")
         => /\ last'.actor = "command_block"
            /\ last'.cmds[1].type = "Unsubscribe"
            /\ t \in SeqToSet(last'.cmds[1].tokens)

\* C13: no step of the connection life cycle changes the table, and an id
\* leaves the table only in the step that applies an Unsubscribe naming it.
C13_TablePersists == [][C13_Step]_vars

\* the watchdog of connection 1 has seen the data timeout and ended the run
\* phase, a second connection has been established, and of the two ids
\* subscribed on the first connection the one the caller unsubscribed has
\* left the table and the other is still in it
C13_Witness ==
    /\ conn = 2
    /\ last.actor = "connect_ok"
    /\ watchdog[1] = "ended"
    /\ reader[1] = "running"
    /\ subscribed_tokens[1] # "absent"
    /\ subscribed_tokens[2] = "absent"

\* the channel of this slice starts with the same command twice: the block
\* that runs with the channel empty applies it the second time
C14_Step ==
    (/\ last'.actor = "command_block"
     /\ last'.cmds[1].type = "Subscribe"
     /\ queue = <<>>)
    => /\ subscribed_tokens' = subscribed_tokens
       /\ \A t \in SeqToSet(last'.cmds[1].tokens) : subscribed_tokens'[t] # "absent"

\* C14: applying the same Subscribe a second time leaves the table as it was
\* after the first: every listed id is in the table, with the level it had
\* after the first, and every other entry is unchanged.
C14_SubscribeIdempotent == [][C14_Step]_vars

\* the same Subscribe has been applied twice: its id is in the table without
\* a mode and the entry of the other id kept its mode
C14_Witness ==
    /\ last.actor = "command_block"
    /\ last.cmds = <<CmdSubscribe(<<1>>)>>
    /\ queue = <<>>
    /\ subscribed_tokens[1] = "none"
    /\ subscribed_tokens[2] = "Full"

C15_Step ==
    last'.actor = "command_block"
    => LET c == last'.cmds[1]
           ids == SeqToSet(c.tokens)
       IN  /\ c.type = "SetMode"
              => \A t \in Tokens :
                   subscribed_tokens'[t] =
                     IF t \in ids THEN c.mode ELSE subscribed_tokens[t]
           /\ c.type = "Unsubscribe"
              => \A t \in Tokens :
                   subscribed_tokens'[t] =
                     IF t \in ids THEN "absent" ELSE subscribed_tokens[t]

\* C15: applying SetMode(mode, ids) leaves every listed id with that mode,
\* whatever it had and also when it was absent; applying Unsubscribe(ids)
\* leaves every listed id absent; both leave every other id as it was.
C15_SetModeAndUnsubscribe == [][C15_Step]_vars

\* a SetMode created the entry of id 2 and overwrote the mode of id 1
C15_Witness ==
    /\ last.actor = "command_block"
    /\ last.cmds = <<CmdSetMode("Quote", <<2, 1>>)>>
    /\ Len(queue) = 1
    /\ subscribed_tokens = [t \in Tokens |-> "Quote"]

IsPrefix(a, b) == Len(a) <= Len(b) /\ SubSeq(b, 1, Len(a)) = a

\* what receiver r has received is the beginning of what was emitted since
\* its subscription, in emission order
ReceivedAll(r) ==
    /\ rx[r].start + Len(rx[r].seen) <= Sent
    /\ \A i \in 1..Len(rx[r].seen) : rx[r].seen[i] = EventAt(rx[r].start + i)

\* the receivers subscribed at the same moment as r
SameMoment(r) == {q \in RxIds : rx[q].open /\ rx[q].start = rx[r].start}

\* C17 as stated: what a receiver has received is the beginning of what was
\* emitted since its subscription, nothing skipped, and of two receivers
\* subscribed at the same moment one has received the beginning of what the
\* other has.
C17_ReceiverSeesEveryEvent ==
    \A r \in RxIds :
        rx[r].open
        => /\ rx[r].missed = 0
           /\ ReceivedAll(r)
           /\ \A q \in SameMoment(r) :
                IsPrefix(rx[r].seen, rx[q].seen) \/ IsPrefix(rx[q].seen, rx[r].seen)

\* the number, in emission order, of the first event receiver r has neither
\* received nor been told it missed
Expected(r) == rx[r].start + Len(rx[r].seen) + rx[r].missed + 1

\* the step is a recv of receiver r
Receives(r) ==
    last'.actor = "receiver" /\ last'.conn = r /\ last'.result \in {"event", "lagged"}

C17_Step ==
    /\ last'.actor # "receiver"
       => /\ rx' = rx
          /\ Len(last'.events) <= 1
          /\ log' = IF \E r \in RxIds : rx[r].open THEN log \o last'.events ELSE log
    /\ last'.actor = "receiver" => log' = log
    /\ \A r \in RxIds :
         /\ (last'.actor = "receiver" /\ last'.conn = r /\ last'.result = "subscribed")
            => /\ rx'[r].open
               /\ rx'[r].start = Sent
               /\ rx'[r].seen = <<>>
               /\ rx'[r].missed = 0
         /\ Receives(r)
            => /\ rx[r].open /\ rx'[r].open
               /\ rx'[r].start = rx[r].start
               /\ Expected(r) <= Sent
               /\ IF Sent - Expected(r) + 1 > event_capacity
                  THEN /\ last'.result = "lagged"
                       /\ rx'[r].seen = rx[r].seen
                       /\ last'.writes = <<rx'[r].missed - rx[r].missed>>
                       /\ Expected(r)' = Sent - event_capacity + 1
                  ELSE /\ last'.result = "event"
                       /\ rx'[r].seen = Append(rx[r].seen, EventAt(Expected(r)))
                       /\ rx'[r].missed = rx[r].missed
         /\ (rx[r].open /\ ~(last'.actor = "receiver" /\ last'.conn = r))
            => rx'[r] = rx[r]

C17_Inv ==
    /\ event_capacity = 1024
    /\ \A r \in RxIds :
        (rx[r].open /\ rx[r].missed = 0)
        => /\ ReceivedAll(r)
           /\ \A q \in SameMoment(r) :
                rx[q].missed = 0
                => \/ IsPrefix(rx[r].seen, rx[q].seen)
                   \/ IsPrefix(rx[q].seen, rx[r].seen)

\* C17, amended: a new receiver has nothing emitted before its subscription;
\* the events are emitted one by one and each recv returns the first event
\* emitted since the subscription that the receiver has neither received nor
\* missed, as long as no more than 1024 events wait for it; when more wait,
\* the recv returns no event but reports how many the receiver missed, which
\* are all but the newest 1024, and the receiver goes on from the oldest of
\* these.  So a receiver that has missed nothing has received the beginning
\* of what was emitted since its subscription, and of two such receivers
\* subscribed at the same moment one has received the beginning of what the
\* other has.
C17_ReceiverSeesRetainedEvents == []C17_Inv /\ [][C17_Step]_vars

\* receiver 1 was told it had missed events and then received the oldest event
\* the channel held, while receiver 2, subscribed at the same moment, has
\* missed nothing and received the first events emitted
C17_Witness ==
    /\ last.actor = "receiver"
    /\ last.conn = 1
    /\ last.result = "event"
    /\ rx[1].open /\ rx[2].open
    /\ rx[1].start = rx[2].start
    /\ rx[1].missed > 0
    /\ rx[1].seen = <<EventAt(Sent - event_capacity + 1)>>
    /\ rx[2].missed = 0
    /\ Len(rx[2].seen) = MaxReads
    /\ rx[2].seen = [i \in 1..MaxReads |-> EventAt(i)]

\* C18: once the active connection has had no inbound message for longer
\* than the data timeout and its watchdog runs, the watchdog is bound to find
\* it at its next poll and to fire: the timeout stays exceeded until that
\* watchdog has read the last ping time, unless the active connection itself
\* receives a message or a new connection takes its place, and the step of
\* that watchdog after the read sends its Error event and ends it.
InboundKinds == {"binary", "text", "close"}

C18_Step ==
    /\ (conn >= 1 /\ watchdog[conn] = "running" /\ since > DATA_TIMEOUT_INTERVAL)
       => \/ conn' # conn
          \/ watchdog'[conn] = "running" /\ since' > DATA_TIMEOUT_INTERVAL
          \/ /\ last'.actor = "watchdog" /\ last'.conn = conn
             /\ last'.result = "expired"
             /\ watchdog'[conn] = "expired"
          \/ /\ last'.actor = "reader" /\ last'.conn = conn
             /\ last'.result \in InboundKinds
    /\ (/\ conn >= 1 /\ watchdog[conn] = "expired"
        /\ last'.actor = "watchdog" /\ last'.conn = conn)
       => /\ last'.result = "fired"
          /\ EventTypes(last') = {"Error"}
          /\ watchdog'[conn] = "ended"

C18_WatchdogFiresOnSilence == [][C18_Step]_vars

\* C19: a read loop that takes a close frame has exactly one Close event to
\* send, with the code and reason of the frame or 1000 "Normal closure" for a
\* frame without payload, and ends when it has sent it; when the close came
\* on the active connection in its run phase, the next step of serve goes to
\* the top of the loop with auto-reconnect enabled; with it disabled serve
\* returns, in that step or at the top of the loop with no further
\* connection attempt.
CloseFrames == {EvClose(1001, "going away"), EvClose(1000, "Normal closure")}

C19_Step ==
    /\ (last'.actor = "reader" /\ last'.result = "close")
       => /\ last'.events = <<>>
          /\ msg'[last'.conn].kind = "close"
          /\ Len(msg'[last'.conn].todo) = 1
          /\ msg'[last'.conn].todo[1] \in CloseFrames
    /\ (last'.actor = "reader_send" /\ last'.result = "close")
       => /\ last'.events = msg[last'.conn].todo
          /\ Len(last'.events) = 1
          /\ last'.events[1] \in CloseFrames
          /\ reader'[last'.conn] = "ended"
    /\ "Close" \in EventTypes(last')
       => (last'.actor = "reader_send" /\ last'.result = "close")
    /\ (/\ last.actor = "reader_send" /\ last.result = "close" /\ last.conn = conn
        /\ pc = "run"
        /\ last'.actor \in ServeActors)
       => IF auto_reconnect THEN pc' = "loop_top"
          ELSE \/ pc' \in {"return", "returned"}
               \/ /\ pc' = "loop_top"
                  /\ RetriesExhausted(reconnect_attempt', reconnect_max_retries)

C19_CloseEndsOrReconnects == [][C19_Step]_vars

\* C20: a connect attempt that fails, by a transport error or by the
\* timeout, emits exactly one Error event and establishes no connection;
\* with auto-reconnect enabled it adds exactly one to the attempt count and
\* goes to the top of the loop; with it disabled the next step of serve
\* returns that error, with no event, no change of the count and no
\* connection attempt, and a returned serve takes no further step.
ConnectFailActors == {"connect_failed", "connect_timeout"}

C20_Step ==
    /\ last'.actor \in ConnectFailActors
       => /\ pc = "connect"
          /\ Len(last'.events) = 1
          /\ last'.events[1].type = "Error"
          /\ conn' = conn
          /\ serve_result' = serve_result
          /\ IF auto_reconnect
             THEN /\ reconnect_attempt' = reconnect_attempt + 1
                  /\ pc' = "loop_top"
             ELSE /\ reconnect_attempt' = reconnect_attempt
                  /\ pc' = "return"
                  /\ error_msg' = last'.events[1].message
    /\ pc = "return"
       => /\ pc' \in {"return", "returned"}
          /\ error_msg' = error_msg
          /\ conn' = conn
          /\ reconnect_attempt' = reconnect_attempt
          /\ last'.actor \in ServeActors
             => /\ last'.actor = "serve_return"
                /\ last'.events = <<>>
                /\ pc' = "returned"
                /\ serve_result' = error_msg
    /\ pc = "returned"
       => /\ pc' = "returned"
          /\ conn' = conn
          /\ serve_result' = serve_result
          /\ last'.actor \notin ServeActors

C20_ConnectFailuresAlike == [][C20_Step]_vars

\* serve has returned the error of a connect timeout, auto-reconnect disabled
C20_Witness ==
    /\ ~auto_reconnect
    /\ last.actor = "serve_return"
    /\ pc = "returned"
    /\ serve_result = "Connection timed out after 7s"
    /\ reconnect_attempt = 0
    /\ conn = 0

\* C21: serve never returns an error, and never starts a retry, without an
\* Error, Reconnect or NoReconnect event for it: serve returns only after a
\* step that emitted one, the step that leads a retry into its connect
\* attempt emits one, and so does a failed connect attempt that goes back to
\* the top of the loop.
FailureEvents == {"Error", "Reconnect", "NoReconnect"}

C21_Step ==
    /\ (pc # "return" /\ pc' = "return")
       => EventTypes(last') \cap FailureEvents # {}
    /\ (pc # "returned" /\ pc' = "returned") => pc = "return"
    /\ (pc = "loop_top" /\ pc' = "connect" /\ reconnect_attempt > 0)
       => "Reconnect" \in EventTypes(last')
    /\ (pc = "connect" /\ pc' = "loop_top")
       => "Error" \in EventTypes(last')

C21_FailuresAreEmitted == [][C21_Step]_vars

\* C22: a maximum delay below the floor of 5000 ms is rejected with an error
\* and leaves the maximum delay as it was; one at or above the floor is
\* accepted and stored; build fails on a delay below the floor, and serve
\* never runs with a maximum delay below the floor.
ConfigActors == {"set_reconnect_max_delay", "build"}

\* the other setters of a Ticker
OtherSetters == {"set_connect_timeout", "set_auto_reconnect",
                 "set_reconnect_max_retries", "set_root_url"}

\* serve has been called
ServePcs == {"loop_top", "connect", "connected", "resubscribe",
             "handle_connection", "run", "return", "returned", "panicked"}

C22_Step ==
    /\ (pc = "new" /\ last'.actor = "set_reconnect_max_delay")
       => LET delay == last'.writes[1]
          IN  IF delay < 5000
              THEN /\ last'.result = "ReconnectMaxDelay can't be less than 5000ms"
                   /\ reconnect_max_delay' = reconnect_max_delay
              ELSE /\ last'.result = "ok"
                   /\ reconnect_max_delay' = delay
    /\ (pc = "builder" /\ last'.actor = "build")
       => LET option == last'.writes[1].reconnect_max_delay
          IN  IF option.some /\ option.val < 5000
              THEN /\ last'.result = "ReconnectMaxDelay can't be less than 5000ms"
                   /\ pc' = "build_failed"
              ELSE /\ last'.result = "ok"
                   /\ pc' = "new"
                   /\ reconnect_max_delay' = IF option.some THEN option.val
                                             ELSE 60000
    /\ last'.actor \in OtherSetters => reconnect_max_delay' = reconnect_max_delay
    /\ pc \in ServePcs
       => /\ reconnect_max_delay >= 5000
          /\ reconnect_max_delay' = reconnect_max_delay
          /\ pc' \in ServePcs
    /\ pc = "build_failed" => pc' = "build_failed"

C22_SubFloorDelayRejected == [][C22_Step]_vars

\* the caller stored 5.5 s, then tried 4999 ms: rejected, 5.5 s kept
C22_Witness ==
    /\ pc = "new"
    /\ last.actor = "set_reconnect_max_delay"
    /\ last.writes = <<4999>>
    /\ last.result = "ReconnectMaxDelay can't be less than 5000ms"
    /\ reconnect_max_delay = 5500

\* C23: split_packets returns, in order, the longest run of the declared
\* sub-packets whose length header and payload lie wholly in the buffer:
\* the buffer after its count is the returned packets, each behind its
\* length header; no more packets than declared are returned; and if fewer
\* are returned, the next header or the payload it declares does not fit.
\* A buffer shorter than 2 bytes gives no packets.
C23_SplitPackets ==
    call.fn = "split_packets"
    => LET data == call.arg
           out == call.ret
           consumed == 2 + Len(EncodePackets(out))
       IN  IF Len(data) < 2 THEN out = <<>>
           ELSE /\ Len(out) <= U16Be(data[1], data[2])
                /\ consumed <= Len(data)
                /\ SubSeq(data, 3, consumed) = EncodePackets(out)
                /\ Len(out) < U16Be(data[1], data[2])
                   => \/ consumed + 2 > Len(data)
                      \/ consumed + 2 + U16Be(data[consumed + 1], data[consumed + 2])
                         > Len(data)

\* a buffer declaring 3 sub-packets holds the first whole and the second cut
\* short: one packet is returned
C23_Witness ==
    /\ call.fn = "split_packets"
    /\ Len(call.arg) = 2 + 2 + 8 + 2 + 3
    /\ U16Be(call.arg[1], call.arg[2]) = 3
    /\ call.ret = <<PacketA>>

\* C24: parse_packet chooses by the length of the packet alone: 8 bytes give
\* a tick of mode ltp, 28 and 44 of mode quote, 32 and 184 of mode full,
\* whatever the segment; any other length gives an error and no tick; the
\* instrument token of a tick is its first 4 bytes, big-endian.
C24_PathByLength ==
    call.fn = "parse_packet"
    => LET data == call.arg
           r == call.ret
       IN  IF Len(data) \in {8, 28, 32, 44, 184}
           THEN /\ r.ok
                /\ r.tick.mode = CASE Len(data) = 8 -> "ltp"
                                   [] Len(data) \in {28, 44} -> "quote"
                                   [] Len(data) \in {32, 184} -> "full"
                /\ r.tick.instrument_token
                   = ((data[1] * 256 + data[2]) * 256 + data[3]) * 256 + data[4]
           ELSE /\ ~r.ok
                /\ "tick" \notin DOMAIN r

\* a 32-byte packet of an instrument that is not an index decoded as full
C24_Witness ==
    /\ call.fn = "parse_packet"
    /\ Len(call.arg) = 32
    /\ call.arg[4] = 1
    /\ call.ret.ok
    /\ call.ret.tick.mode = "full"
    /\ call.ret.tick.instrument_token = 66051 * 256 + 1
    /\ ~call.ret.tick.is_index

\* C25: every price of a decoded tick is a raw 4-byte big-endian unsigned
\* integer of the packet divided by the divisor of the segment, the low byte
\* of the instrument token: 10,000,000 for segment 3, 10,000 for segment 6,
\* 100 for any other; convert_price gives 157315/100 for raw 157315 on
\* segment 1, 157315/10000 for raw 157315000 on segment 3 and for raw 157315
\* on segment 6.
SegmentDivisor(segment) ==
    IF segment = 3 THEN 10000000 ELSE IF segment = 6 THEN 10000 ELSE 100

\* the raw big-endian integer at 0-based byte offset off
RawAt(data, off) ==
    ((data[off + 1] * 256 + data[off + 2]) * 256 + data[off + 3]) * 256 + data[off + 4]

Scaled(data, off) == [num |-> RawAt(data, off), den |-> SegmentDivisor(data[4])]

C25_PriceScaling ==
    /\ call.fn = "convert_price"
       => /\ call.ret = [num |-> call.arg[2], den |-> SegmentDivisor(call.arg[1])]
          /\ call.arg = <<1, 157315>> => call.ret = [num |-> 157315, den |-> 100]
          /\ call.arg = <<3, 157315000>>
             => call.ret = [num |-> 157315 * 1000, den |-> 10000 * 1000]
          /\ call.arg = <<6, 157315>> => call.ret = [num |-> 157315, den |-> 10000]
    /\ (call.fn = "parse_packet" /\ call.ret.ok)
       => LET data == call.arg
              t == call.ret.tick
              n == Len(data)
          IN  /\ t.last_price = Scaled(data, 4)
              /\ n \in {28, 32}
                 => t.ohlc = [high |-> Scaled(data, 8), low |-> Scaled(data, 12),
                              open |-> Scaled(data, 16), close |-> Scaled(data, 20)]
              /\ n \in {44, 184}
                 => /\ t.average_trade_price = Scaled(data, 12)
                    /\ t.ohlc = [open |-> Scaled(data, 28), high |-> Scaled(data, 32),
                                 low |-> Scaled(data, 36), close |-> Scaled(data, 40)]
              /\ n = 184
                 => \A i \in 1..5 :
                      /\ t.depth.buy[i].price = Scaled(data, 64 + 12 * (i - 1) + 4)
                      /\ t.depth.sell[i].price = Scaled(data, 124 + 12 * (i - 1) + 4)

\* a full packet of the currency-derivatives segment whose prices are all
\* raw 157315000: 15.7315 at the last price and at the fifth sell level
C25_Witness ==
    /\ call.fn = "parse_packet"
    /\ Len(call.arg) = 184
    /\ call.arg[4] = 3
    /\ call.ret.ok
    /\ call.ret.tick.last_price = [num |-> 157315000, den |-> 10000000]
    /\ call.ret.tick.depth.sell[5].price = [num |-> 157315000, den |-> 10000000]

\* C26: every decoded tick has exactly 5 buy and 5 sell depth levels; in a
\* 184-byte packet buy level i (0..4) is read at byte offset 64 + 12i and
\* sell level i at 124 + 12i, each as a 4-byte quantity, a 4-byte price
\* scaled by the segment and a 2-byte order count; for the lengths 8, 28, 32
\* and 44 all ten levels are the zero value.
LevelAt(data, off) ==
    [quantity |-> RawAt(data, off),
     price |-> Scaled(data, off + 4),
     orders |-> data[off + 9] * 256 + data[off + 10]]

ZeroLevel == [price |-> [num |-> 0, den |-> 1], quantity |-> 0, orders |-> 0]

C26_DepthLevels ==
    (call.fn = "parse_packet" /\ call.ret.ok)
    => LET data == call.arg
           depth == call.ret.tick.depth
       IN  /\ DOMAIN depth.buy = 1..5
           /\ DOMAIN depth.sell = 1..5
           /\ IF Len(data) = 184
              THEN \A i \in 0..4 :
                     /\ depth.buy[i + 1] = LevelAt(data, 64 + 12 * i)
                     /\ depth.sell[i + 1] = LevelAt(data, 124 + 12 * i)
              ELSE \A i \in 1..5 : depth.buy[i] = ZeroLevel /\ depth.sell[i] = ZeroLevel

\* a full packet whose fields all differ: the fifth sell level is the one
\* read at offset 172, up to the last byte of the packet
C26_Witness ==
    /\ call.fn = "parse_packet"
    /\ Len(call.arg) = 184
    /\ call.ret.ok
    /\ call.ret.tick.depth.sell[5] = LevelAt(call.arg, 172)
    /\ call.ret.tick.depth.sell[5] # call.ret.tick.depth.buy[5]
    /\ call.ret.tick.depth.sell[5].quantity > 0
    /\ call.ret.tick.depth.sell[5].orders > 0

\* C27: the net change of a tick decoded from 28, 32, 44 or 184 bytes is its
\* last price minus its OHLC close, the close being the raw integer at bytes
\* 20..24 for the lengths 28 and 32 and at bytes 40..44 for 44 and 184; the
\* net change of an 8-byte packet is zero.
CloseOffset(n) == IF n \in {28, 32} THEN 20 ELSE 40

C27_NetChange ==
    (call.fn = "parse_packet" /\ call.ret.ok)
    => LET data == call.arg
           t == call.ret.tick
       IN  IF Len(data) = 8
           THEN t.net_change = [num |-> 0, den |-> 1]
           ELSE /\ t.ohlc.close = Scaled(data, CloseOffset(Len(data)))
                /\ t.last_price = Scaled(data, 4)
                /\ t.net_change = [minuend |-> t.last_price,
                                   subtrahend |-> t.ohlc.close]

\* a quote packet whose last price is below its close: a negative net change
C27_Witness ==
    /\ call.fn = "parse_packet"
    /\ Len(call.arg) = 44
    /\ call.ret.ok
    /\ call.ret.tick.last_price.num < call.ret.tick.ohlc.close.num
    /\ call.ret.tick.net_change.minuend = call.ret.tick.last_price
    /\ call.ret.tick.net_change.subtrahend = call.ret.tick.ohlc.close

\* C28: a raw timestamp of zero in a 32-byte or a 184-byte packet decodes to
\* the null time, never to the epoch; a raw timestamp t that is not zero
\* decodes to the time t seconds after the epoch; packets of 8, 28 and 44
\* bytes carry the null time.
TimeOf(raw) == IF raw = 0 THEN [null |-> TRUE, secs |-> 0]
               ELSE [null |-> FALSE, secs |-> raw]

C28_Timestamps ==
    (call.fn = "parse_packet" /\ call.ret.ok)
    => LET data == call.arg
           t == call.ret.tick
       IN  CASE Len(data) = 32 ->
                  /\ t.timestamp = TimeOf(RawAt(data, 28))
                  /\ t.last_trade_time.null
             [] Len(data) = 184 ->
                  /\ t.timestamp = TimeOf(RawAt(data, 60))
                  /\ t.last_trade_time = TimeOf(RawAt(data, 44))
             [] OTHER -> t.timestamp.null /\ t.last_trade_time.null

\* a full packet whose two raw timestamps are zero: both times are null
C28_Witness ==
    /\ call.fn = "parse_packet"
    /\ Len(call.arg) = 184
    /\ RawAt(call.arg, 60) = 0
    /\ RawAt(call.arg, 44) = 0
    /\ call.ret.ok
    /\ call.ret.tick.timestamp.null
    /\ call.ret.tick.last_trade_time.null

(***************************************************************************)
(* Inbound text messages.                                                  *)
(***************************************************************************)
\* what a text message is to produce after its raw-message event
TextOutcome(text) ==
    IF text.json /\ text.type = "order" /\ text.payload_ok
    THEN <<[type |-> "OrderUpdate"]>>
    ELSE IF text.json /\ text.type = "error" /\ text.payload_ok
         THEN <<[type |-> "Error", message |-> text.data]>>
         ELSE <<>>

\* the events a text message is to produce, the raw-message event first
TextEvents(text) == <<[type |-> "Message", data |-> text]>> \o TextOutcome(text)

C29_Step ==
    /\ (last'.actor = "reader" /\ last'.result = "text")
       => LET m == msg'[last'.conn]
          IN  /\ last'.events = <<>>
              /\ msg[last'.conn].kind = ""
              /\ m.kind = "text"
              /\ m.data \in Texts
              /\ m.sent = <<>>
              /\ m.todo = TextEvents(m.data)
              /\ UNCHANGED <<reader, watchdog, conn, pc, serve_result>>
    /\ (last'.actor = "reader_send" /\ last'.result = "text")
       => LET m == msg[last'.conn]
              n == msg'[last'.conn]
          IN  /\ m.kind = "text"
              /\ m.sent \o m.todo = TextEvents(m.data)
              /\ last'.events = <<Head(m.todo)>>
              /\ IF Tail(m.todo) = <<>> THEN n.kind = ""
                 ELSE /\ n.kind = "text"
                      /\ n.data = m.data
                      /\ n.sent = Append(m.sent, Head(m.todo))
                      /\ n.todo = Tail(m.todo)
              /\ reader'[last'.conn] = "running"
              /\ UNCHANGED <<reader, watchdog, conn, pc, serve_result>>
    /\ \A k \in 1..MaxConns :
         (msg[k].kind = "text" /\ ~(last'.actor = "reader_send" /\ last'.conn = k))
         => (msg'[k].kind = "text" /\ msg'[k] = msg[k])

\* C29: a text message of type "order" with a valid order snapshot produces
\* exactly one OrderUpdate event, one of type "error" with a string payload
\* exactly one Error event carrying that string, and any other text (another
\* type, a malformed payload, invalid JSON) no event besides the raw-message
\* event: the read loop that takes a text has exactly these events to send,
\* sends them one by one in that order and nothing else until the last is
\* sent; in no case does the text message end the read loop or the connection
C29_TextMessages == [][C29_Step]_vars

\* an "error" text with a string payload has been handled: the Error event
\* carrying the string was the last of the text and the read loop of the
\* connection still runs, waiting for the next message
C29_Witness ==
    /\ last.actor = "reader_send"
    /\ last.result = "text"
    /\ last.events = <<[type |-> "Error", message |-> "token expired"]>>
    /\ msg[last.conn].kind = ""
    /\ reader[last.conn] = "running"

(***************************************************************************)
(* Outbound control messages.                                              *)
(***************************************************************************)
\* the names of the detail levels on the wire
LevelName(m) ==
    IF m = "LTP" THEN "ltp" ELSE IF m = "Quote" THEN "quote" ELSE "full"

\* the step of the command loop that writes to the socket
C30_Step == last'.actor = "command"

\* C30: each applied command produces exactly one wire message: Subscribe(ids)
\* the action "subscribe" with the id array as value, Unsubscribe(ids) the
\* action "unsubscribe" with the id array, SetMode(level, ids) the action
\* "mode" with the two-element array [level name, id array], the level names
\* being "ltp", "quote" and "full"; the ids are in the order the caller gave
C30_WireMessages ==
    [][/\ C30_Step =>
         /\ table_lock.cmd_pc = "write"
         /\ table_lock'.cmd_pc \in {"recv", "error"}
         /\ last'.cmds = table_lock.cmd
         /\ Len(last'.writes) = 1
         /\ LET c == table_lock.cmd[1]
                w == last'.writes[1].msg
            IN  /\ c.type = "Subscribe" =>
                     w = [a |-> "subscribe", v |-> c.tokens]
                /\ c.type = "Unsubscribe" =>
                     w = [a |-> "unsubscribe", v |-> c.tokens]
                /\ c.type = "SetMode" =>
                     /\ c.mode \in Mode
                     /\ w = [a |-> "mode", v |-> <<LevelName(c.mode), c.tokens>>]
       /\ last'.writes # <<>> => C30_Step
       /\ (table_lock.cmd_pc = "write" /\ table_lock'.cmd_pc # "write") => C30_Step]_vars

\* SetMode(Quote, [2, 1]) has been applied and written as
\* {"a": "mode", "v": ["quote", [2, 1]]}
C30_Witness ==
    /\ last.actor = "command"
    /\ last.cmds = <<[type |-> "SetMode", mode |-> "Quote", tokens |-> <<2, 1>>]>>
    /\ Len(last.writes) = 1
    /\ last.writes[1].ok
    /\ last.writes[1].msg = [a |-> "mode", v |-> <<"quote", <<2, 1>>>>]

(***************************************************************************)
(* The attempt counter across a successful connection.                     *)
(***************************************************************************)
\* serve between the Connect event of a connection and its run phase
ConnectedArm == {"connected", "resubscribe", "handle_connection"}

C31_Step ==
    /\ last'.actor = "connect_ok"
       => /\ reconnect_attempt' = 0
          /\ last'.events = <<[type |-> "Connect"]>>
          /\ pc' = "connected"
    /\ (pc \in ConnectedArm /\ last'.actor \in ServeActors)
       => /\ reconnect_attempt = 0
          /\ reconnect_attempt' = 0
          /\ pc' \in ConnectedArm \cup {"run"}
          /\ "Connect" \notin EventTypes(last')
    /\ "Connect" \in EventTypes(last') => last'.actor = "connect_ok"
    /\ (pc = "run" /\ last'.actor \in ServeActors)
       => /\ last'.actor = "run_end"
          /\ reconnect_attempt = 0
          /\ reconnect_attempt' = 1
          /\ pc' = "loop_top"
    /\ last'.actor \notin ServeActors => UNCHANGED <<reconnect_attempt, pc>>
    /\ (last.actor = "run_end" /\ last'.actor \in ServeActors)
       => \/ /\ last'.actor = "serve_backoff"
             /\ last'.events = <<[type |-> "Reconnect", attempt |-> 1,
                                  delay |-> Min(2000, reconnect_max_delay)]>>
          \/ /\ last'.actor = "serve_exhausted"
             /\ reconnect_max_retries = 0
    /\ last'.actor = "serve_exhausted" => reconnect_attempt > reconnect_max_retries

\* C31: every successful connection resets the attempt counter to 0 and emits
\* exactly one Connect event; the counter stays 0 up to the run phase, and the
\* run phase of a connection ends with the counter at 1 whatever the number
\* of failed attempts before the connection, so that the first reconnect
\* after it is announced as Reconnect(1, min(2 s, max delay)), and serve
\* gives up only when the failures counted since the last successful
\* connection exceed the retry budget.
C31_CounterResetOnConnect == [][C31_Step]_vars

\* a connection has been established and has ended, and the reconnect after
\* it is announced as attempt 1 with a delay of 2 s
C31_Witness ==
    /\ last.actor = "serve_backoff"
    /\ last.events = <<[type |-> "Reconnect", attempt |-> 1, delay |-> 2000]>>
    /\ conn >= 1
    /\ reconnect_max_retries >= 1

(***************************************************************************)
(* The liveness timestamp and the kinds of inbound message.                *)
(***************************************************************************)
\* the read-loop steps that took a message off the stream: binary, text,
\* close, and the others (ping, pong, raw frame)
MessageKinds == {"binary", "text", "close", "other"}

C32_Step ==
    /\ (last'.actor = "reader" /\ last'.conn = conn /\ last'.result \in MessageKinds)
       => since' = 0
    /\ (/\ last.actor = "reader" /\ last.conn = conn /\ last.result \in MessageKinds
        /\ last'.actor = "watchdog" /\ last'.conn = conn)
       => last'.result # "expired"

\* C32: every inbound message of the active connection, whatever its kind
\* (binary, text, close, ping, pong), refreshes the liveness timestamp, so
\* that the watchdog of the connection never finds the timeout exceeded right
\* after one.
C32_EveryInboundRefreshes == [][C32_Step]_vars

(***************************************************************************)
(* A write of the command loop that fails.                                 *)
(***************************************************************************)
\* a step of the command loop whose write to the socket failed
C33_Failed(st) ==
    /\ st.actor = "command"
    /\ Len(st.writes) = 1
    /\ ~st.writes[1].ok

\* the texts of the Error event of a write that failed
WriteFailures == {"Failed to send WebSocket message: " \o e : e \in WriteErrors}

C33_Step ==
    /\ C33_Failed(last')
       => /\ last'.events = <<>>
          /\ table_lock.cmd_pc = "write"
          /\ last'.cmds = table_lock.cmd
          /\ ApplyCommand(subscribed_tokens, table_lock.cmd[1]) = subscribed_tokens
          /\ subscribed_tokens' = subscribed_tokens
          /\ queue' = queue
          /\ table_lock'.cmd_pc = "error"
          /\ table_lock'.cmd_err \in WriteFailures
          /\ cmd_owner' = cmd_owner
          /\ cmd_owner' >= 1
    /\ (table_lock.cmd_pc # "error" /\ table_lock'.cmd_pc = "error")
       => C33_Failed(last')
    /\ table_lock.cmd_pc = "error"
       => /\ subscribed_tokens' = subscribed_tokens
          /\ cmd_owner' = cmd_owner
          /\ IF last'.actor \in CommandActors
             THEN /\ last'.actor = "command_error"
                  /\ last'.events = <<[type |-> "Error",
                                       message |-> table_lock.cmd_err]>>
                  /\ table_lock'.cmd_pc = "recv"
                  /\ queue' = queue
             ELSE table_lock'.cmd_pc = "error"
    /\ (last'.actor \in CommandActors /\ last'.events # <<>>)
       => (last'.actor = "command_error" /\ table_lock.cmd_pc = "error")
    /\ (table_lock.cmd_pc # "write" /\ table_lock'.cmd_pc = "write")
       => /\ last'.actor = "command_block"
          /\ subscribed_tokens' = ApplyCommand(subscribed_tokens, table_lock.cmd[1])
          /\ table_lock'.cmd = table_lock.cmd
    /\ table_lock.cmd_pc = "write"
       => (subscribed_tokens' = subscribed_tokens /\ last'.actor # "command_block")

\* C33: a write of a command's wire message that fails is reported as exactly
\* one Error event, sent by the next step of the command task, and does not
\* end the command loop: the table update of that command was applied by the
\* block before the write and is kept, the command task stays the owner of
\* the channel and goes back to recv, and a command still waiting in the
\* channel can be taken.
C33_WriteFailureKeepsLoop ==
    /\ [][C33_Step]_vars
    /\ []((last.actor = "command_error" /\ queue # <<>>) => ENABLED CommandRecv)

\* the write of a Subscribe failed and its Error event was sent: token 1 is in
\* the table all the same, and the next command waits for the loop, which
\* still runs
C33_Witness ==
    /\ last.actor = "command_error"
    /\ last.cmds = <<[type |-> "Subscribe", mode |-> "none", tokens |-> <<1>>]>>
    /\ last.events = <<[type |-> "Error",
          message |-> "Failed to send WebSocket message: Trying to work with closed connection"]>>
    /\ subscribed_tokens[1] = "none"
    /\ table_lock.cmd_pc = "recv"
    /\ queue # <<>>
    /\ cmd_owner = 1

(***************************************************************************)
(* The lock of the table and the suspension points.                        *)
(***************************************************************************)
\* the command task is outside its block: it waits for a command, for the
\* lock or for the socket, or is about to send the Error event of a write
CmdSuspended == table_lock.cmd_pc \in {"recv", "lock", "write", "error"}

\* resubscribe is outside its block: not called, waiting for the lock, or
\* sending its commands
ReplayOutsideBlock == table_lock.rs_pc \in {"idle", "lock", "send"}

\* C34: no task holds the lock of the table across an I/O or suspension
\* point: the command loop has released the write guard when it writes to the
\* socket and when it waits for the next command, resubscribe has released
\* the read guard before it enqueues a command, and a task that waits for the
\* lock waits for a holder whose next step releases it, so that no deadlock
\* on the table is reachable.
C34_NoLockAcrossSuspension ==
    /\ CmdSuspended => ~table_lock.writer
    /\ ReplayOutsideBlock => ~table_lock.reader
    /\ ~(table_lock.writer /\ table_lock.reader)
    /\ (table_lock.cmd_pc = "lock" /\ table_lock.reader) => ENABLED ResubscribeBlock
    /\ (table_lock.rs_pc = "lock" /\ table_lock.writer) => ENABLED CommandBlock
    /\ table_lock.cmd_pc = "lock" => ENABLED (CommandLock \/ ResubscribeBlock)
    /\ table_lock.rs_pc = "lock" => ENABLED (ResubscribeLock \/ CommandBlock)

\* the command task writes to the socket with the lock free while resubscribe
\* holds its read guard
C34_Witness ==
    /\ table_lock.cmd_pc = "write"
    /\ ~table_lock.writer
    /\ table_lock.rs_pc = "block"
    /\ table_lock.reader

(***************************************************************************)
(* Termination under persistent failure.                                   *)
(***************************************************************************)
C35_Step ==
    /\ reconnect_attempt' \in {reconnect_attempt, reconnect_attempt + 1}
    /\ reconnect_attempt' <= reconnect_max_retries + 1
    /\ last'.actor \in ConnectFailActors
       => /\ reconnect_attempt' = reconnect_attempt + 1
          /\ pc' = "loop_top"
    /\ last'.actor = "serve_backoff"
       => /\ reconnect_attempt \in 1..reconnect_max_retries
          /\ Len(last'.events) = 1
          /\ last'.events[1].type = "Reconnect"
          /\ last'.events[1].attempt = reconnect_attempt
          /\ pc' = "connect"
    /\ last'.actor = "serve_exhausted"
       => /\ last'.events = <<[type |-> "NoReconnect",
                               attempt |-> reconnect_max_retries + 1]>>
          /\ pc' = "return"
    /\ last'.actor = "serve_return"
       => /\ pc = "return"
          /\ pc' = "returned"
          /\ serve_result' = "Maximum reconnect attempts reached"
    /\ pc' \in {"loop_top", "connect", "return", "returned"}

\* C35: with auto-reconnect and a budget of M retries, when every connection
\* attempt fails or times out, each failure raises the attempt count by one,
\* the Reconnect events are numbered by that count, 1 to M, one before each
\* attempt after the first, and at count M + 1 serve emits NoReconnect(M + 1)
\* and then returns its error: M + 1 attempts, and no way on but to that
\* return.
C35_PersistentFailureTerminates == [][C35_Step]_vars

(***************************************************************************)
(* The replay and a caller's Unsubscribe.                                  *)
(***************************************************************************)
\* C36: under any interleaving of the callers' commands with a reconnect
\* replay, an id a caller removed with Unsubscribe comes back only by a later
\* Subscribe or SetMode of a caller that names it; where no caller ever names
\* token 2 in a Subscribe or SetMode, no step puts token 2 back into the
\* table once it is out of it.
C36_ReplayNeverReadds ==
    [][subscribed_tokens[2] = "absent" => subscribed_tokens'[2] = "absent"]_vars

(***************************************************************************)
(* The replay as a round trip of the table.                                *)
(***************************************************************************)
\* the table after the command loop has applied the commands of a channel,
\* oldest first
RECURSIVE ApplyAll(_, _)
ApplyAll(T, cmds) ==
    IF cmds = <<>> THEN T
    ELSE ApplyAll(ApplyCommand(T, Head(cmds)), Tail(cmds))

\* the commands the command loop has still to apply: the one it has taken and
\* not applied yet, then those of the channel
Outstanding ==
    (IF table_lock.cmd_pc \in {"lock", "block"} THEN table_lock.cmd ELSE <<>>)
    \o queue

\* C37: when no caller command is enqueued between the snapshot of a replay and
\* the application of its last command, the table after the replayed commands
\* have been applied equals the table at the snapshot: right after the block
\* that took the snapshot, applying what the command loop has still to apply
\* and then the replay gives the table back, ids, levels and ids without a
\* level alike.
C37_ReplayRoundTrip ==
    last.actor = "resubscribe_block"
    => ApplyAll(subscribed_tokens, Outstanding \o table_lock.pending)
         = subscribed_tokens

\* the same with nothing left to apply at the snapshot: the replayed commands
\* are all the command loop will apply
C37_RoundTripOfReplayAlone ==
    (last.actor = "resubscribe_block" /\ Outstanding = <<>>)
    => ApplyAll(subscribed_tokens, table_lock.pending) = subscribed_tokens

(***************************************************************************)
(* The order of the events of a connection.                                *)
(***************************************************************************)
\* the events a read loop derives from a message, after its Message event
DerivedTypes == {"Tick", "Error", "OrderUpdate"}

\* the steps of a read loop: taking a message off the stream, sending one
\* event of the message in hand
ReaderActors == {"reader", "reader_send"}

C38_Step ==
    /\ last'.actor = "connect_ok"
       => /\ last'.events = <<[type |-> "Connect"]>>
          /\ last'.conn = conn + 1
          /\ conn' = conn + 1
          /\ reader[conn + 1] = "none"
          /\ reader'[conn + 1] = "none"
          /\ queue' = queue
          /\ pc' = "connected"
    /\ pc' = "connected" => (pc = "connected" \/ last'.actor = "connect_ok")
    /\ pc' = "resubscribe" => pc \in {"connected", "resubscribe"}
    /\ pc' = "handle_connection" => pc \in ConnectedArm
    /\ (last'.actor \in ServeActors /\ queue' # queue /\ queue' # <<>>)
       => /\ last'.actor = "resubscribe"
          /\ pc = "resubscribe"
          /\ reader[conn] = "none"
          /\ queue' = queue \o last'.cmds
    /\ \A k \in 1..MaxConns :
         (reader[k] = "none" /\ reader'[k] # "none")
         => /\ k = conn
            /\ conn' = conn
            /\ pc = "handle_connection"
            /\ last'.actor = "handle_connection"
    /\ last'.actor \in ReaderActors
       => /\ last'.conn \in 1..conn
          /\ reader[last'.conn] = "running"
    /\ (last'.actor = "reader" /\ last'.result \in {"binary", "text"})
       => /\ last'.events = <<>>
          /\ msg[last'.conn].kind = ""
          /\ msg'[last'.conn].kind = last'.result
          /\ msg'[last'.conn].sent = <<>>
    /\ (last'.actor = "reader_send" /\ last'.result \in {"binary", "text"})
       => LET m == msg[last'.conn]
              e == last'.events[1]
              packets == split_packets(m.data)
          IN  /\ Len(last'.events) = 1
              /\ m.kind = last'.result
              /\ e.type = "Message" <=> m.sent = <<>>
              /\ e.type = "Message" => e.data = m.data
              /\ e.type # "Message" => e.type \in DerivedTypes
              /\ msg'[last'.conn].kind # ""
                 => msg'[last'.conn].sent = Append(m.sent, e)
              /\ (last'.result = "binary" /\ e.type = "Tick")
                 => /\ \A i \in 2..Len(m.sent) : m.sent[i].type = "Tick"
                    /\ Len(m.sent) <= Len(packets)
                    /\ e.tick = parse_packet(packets[Len(m.sent)]).tick
    /\ \A k \in 1..MaxConns :
         (msg[k].kind # "" /\ ~(last'.actor = "reader_send" /\ last'.conn = k))
         => (msg'[k].kind = msg[k].kind /\ msg'[k] = msg[k])

\* C38: the step that establishes a connection emits its Connect event, the
\* replay is enqueued by later steps of the same arm, and the read loop of
\* the connection is spawned after them by handle_connection, so that no
\* Message, Tick, OrderUpdate or Close event of a connection precedes its
\* Connect; a read loop that has taken a binary or text message sends the
\* Message event first and the events derived from it after, the Ticks of a
\* frame in sub-packet order, and takes the next message only when the last
\* of them is sent.
C38_EventOrder == [][C38_Step]_vars

\* the read loop of connection 2, established by a reconnect that replayed
\* the table, has sent Message and then the tick of the first sub-packet of a
\* frame; the tick of the second is the one still to send
C38_Witness ==
    /\ last.actor = "reader_send"
    /\ last.conn = 2
    /\ last.result = "binary"
    /\ last.events = <<[type |-> "Tick", tick |-> parse_packet(PacketA).tick]>>
    /\ msg[2].kind = "binary"
    /\ Len(msg[2].sent) = 2
    /\ msg[2].sent[1].type = "Message"
    /\ msg[2].todo = <<[type |-> "Tick", tick |-> parse_packet(PacketB).tick]>>
    /\ parse_packet(PacketA).tick # parse_packet(PacketB).tick
    /\ queue # <<>>
====
